---- MODULE Spec2Model ----
(***************************************************************************)
(* The dashboard store of the CSV viewer (useDashboardStore.ts): dataset   *)
(* selection, the preview / summary / chart sessions and the gateway       *)
(* requests they keep in flight.  The zustand state is the record `store`; *)
(* every async function suspended at an await is an entry of a request     *)
(* bag, holding what its closure captured when it was issued.              *)
(***************************************************************************)
EXTENDS Integers, Sequences, FiniteSets, Bags, TLC

VARIABLES
    store,          \* the zustand state: selectedPath, recentFiles, schema, preview, summary, chart
    schemaReqs,     \* bag of selectFile continuations suspended at `await fetchSchema(path)`
    previewReqs,    \* bag of refreshPreview continuations suspended at `await fetchPreview(payload)`
    summaryReqs,    \* bag of refreshSummary continuations suspended at `await fetchSummary(path)`
    chartReqs,      \* bag of refreshChart continuations suspended at `await fetchChartData(payload)`
    filesReqs,      \* bag of init continuations suspended at `await fetchCsvFiles()`
    rejected,       \* TRUE once the promise of some store operation has rejected
    search,         \* the locate part of the preview session: error, highlight, token
    locateReqs,     \* bag of locate continuations suspended at `await locatePreviewValue(payload)`
    calls,          \* number of store operations the user interface has called so far
    last,           \* history: <<operation or response handled by the last step, its argument>>
    latestPreview,  \* history: the preview request issued last within the current selection
    latestChart     \* history: the chart request issued last within the current selection

vars == <<store, schemaReqs, previewReqs, summaryReqs, chartReqs, filesReqs, rejected,
         search, locateReqs,
         calls, last, latestPreview, latestChart>>

reqVars == <<schemaReqs, previewReqs, summaryReqs, chartReqs>>

----------------------------------------------------------------------------
(* Bounds of the model *)

MaxCalls == 3        \* store operations called by the user interface in one run

----------------------------------------------------------------------------
(* Values *)

NoPath == "<undefined>"      \* selectedPath?: string, unset
NoError == "<undefined>"     \* error?: string, unset
NullColumn == "<null>"       \* time_column: string | null
NoRequest == <<>>            \* no preview request issued yet in this selection

Paths == {"A", "B"}

DefaultPageSize == 200
PageSizes == {100, DefaultPageSize}

Pages == {1, 2, 3}

Sorts == {<<>>, <<[column |-> "a", direction |-> "desc"]>>}
Filters == {<<>>, <<[column |-> "a", operator |-> "gt", value |-> 0]>>}

\* The message of the Error a failed gateway call rejects with.
ErrMsgs == {"server error"}

----------------------------------------------------------------------------
(* The gateway's answers: the data behind a path is fixed, so a successful *)
(* response is a function of the request.                                  *)

SchemaOf(path) ==
    IF path = "A"
    THEN <<[name |-> "ts", dtype |-> "TIMESTAMP"], [name |-> "a", dtype |-> "DOUBLE"]>>
    ELSE <<[name |-> "b", dtype |-> "BIGINT"], [name |-> "label", dtype |-> "VARCHAR"]>>

ColumnNames(schema) == [i \in 1..Len(schema) |-> schema[i].name]

TotalRowsOf(path, filters) ==
    IF path = "A" THEN (IF filters = <<>> THEN 450 ELSE 150)
    ELSE (IF filters = <<>> THEN 250 ELSE 0)

\* The rows of a page are named by the query that selects them; a page past
\* the end of the data has no rows.
PreviewResult(payload) ==
    LET total == TotalRowsOf(payload.path, payload.filters)
    IN [rows |-> IF payload.offset < total THEN <<payload>> ELSE <<>>,
        columns |-> ColumnNames(SchemaOf(payload.path)),
        total_rows |-> total]

SummaryResult(path) ==
    [summaries |-> [i \in 1..Len(SchemaOf(path)) |->
                      [column |-> SchemaOf(path)[i].name, path |-> path]]]

ChartResult(payload) ==
    [rows |-> <<payload>>,
     columns |-> <<payload.time_column>> \o payload.value_columns]

----------------------------------------------------------------------------
(* Initial session shapes *)

initialPreviewState ==
    [rows |-> <<>>, columns |-> <<>>, totalRows |-> 0, page |-> 1,
     pageSize |-> DefaultPageSize, sort |-> <<>>, filters |-> <<>>,
     isLoading |-> FALSE, error |-> NoError]

initialSummaryState == [data |-> <<>>, isLoading |-> FALSE, error |-> NoError]

initialChartState ==
    [data |-> <<>>, columns |-> <<>>,
     options |-> [chart_type |-> "line", time_column |-> NullColumn,
                  value_columns |-> <<>>, time_bucket |-> "5 minutes",
                  interpolation |-> "none"],
     isLoading |-> FALSE, error |-> NoError]

\* The locate part of the preview session: no search error, nothing
\* highlighted, no token handed out.
NoHighlight == <<>>

initialSearchState == [searchError |-> NoError, highlight |-> NoHighlight, token |-> 0]

initialStore ==
    [files |-> <<>>, filesLoading |-> FALSE, filesError |-> NoError,
     selectedPath |-> NoPath, recentFiles |-> <<>>, schema |-> <<>>,
     preview |-> initialPreviewState, summary |-> initialSummaryState,
     chart |-> initialChartState]

----------------------------------------------------------------------------
(* Pure helpers of the store *)

\* c.dtype.includes("TIMESTAMP"): case-sensitive substring test, over the
\* dtype tags the schemas of the model use.
IsTimestampDtype(dtype) == dtype \in {"TIMESTAMP", "TIMESTAMP WITH TIME ZONE"}

\* c.dtype.toUpperCase().includes(t) for one of the five numeric tags.
IsNumericDtype(dtype) ==
    dtype \in {"BIGINT", "DOUBLE", "FLOAT", "INTEGER", "REAL", "bigint", "double"}

\* schema.find(...): index of the first column with a timestamp dtype, 0 if none.
FirstTimestampColumn(schema) ==
    IF \E i \in 1..Len(schema) : IsTimestampDtype(schema[i].dtype)
    THEN CHOOSE i \in 1..Len(schema) :
            /\ IsTimestampDtype(schema[i].dtype)
            /\ \A j \in 1..(i - 1) : ~IsTimestampDtype(schema[j].dtype)
    ELSE 0

\* schema.find(...): index of the first column with a numeric dtype, 0 if none.
FirstNumericColumn(schema) ==
    IF \E i \in 1..Len(schema) : IsNumericDtype(schema[i].dtype)
    THEN CHOOSE i \in 1..Len(schema) :
            /\ IsNumericDtype(schema[i].dtype)
            /\ \A j \in 1..(i - 1) : ~IsNumericDtype(schema[j].dtype)
    ELSE 0

\* Variant: the last timestamp column and the last numeric column are taken.
getDefaultChartOptions_LastMatch(schema) ==
    IF Len(schema) = 0 THEN <<>>
    ELSE LET ts == {i \in 1..Len(schema) : IsTimestampDtype(schema[i].dtype)}
             vs == {i \in 1..Len(schema) : IsNumericDtype(schema[i].dtype)}
         IN [time_column |-> IF ts = {} THEN NullColumn
                             ELSE schema[CHOOSE i \in ts : \A j \in ts : j <= i].name,
             value_columns |-> IF vs = {} THEN <<>>
                               ELSE <<schema[CHOOSE i \in vs : \A j \in vs : j <= i].name>>]

\* A Partial<ChartOptions>: a record holding only the fields that are given.
getDefaultChartOptions(schema) ==
    IF Len(schema) = 0 THEN <<>>
    ELSE LET t == FirstTimestampColumn(schema)
             v == FirstNumericColumn(schema)
         IN [time_column |-> IF t = 0 THEN NullColumn ELSE schema[t].name,
             value_columns |-> IF v = 0 THEN <<>> ELSE <<schema[v].name>>]

\* Object spread { ...base, ...partial }.
Merge(base, partial) ==
    [k \in DOMAIN base |-> IF k \in DOMAIN partial THEN partial[k] ELSE base[k]]

FilterOut(seq, x) == SelectSeq(seq, LAMBDA item : item # x)

\* Variant: the selected path is put in front without removing its earlier entry.
updateRecent_NoDedup(prev, path) ==
    SubSeq(<<path>> \o prev, 1, IF Len(prev) + 1 < 5 THEN Len(prev) + 1 ELSE 5)

\* Variant: the selected path is moved to the end of the list.
updateRecent_Append(prev, path) ==
    LET all == FilterOut(prev, path) \o <<path>>
    IN SubSeq(all, IF Len(all) > 5 THEN Len(all) - 4 ELSE 1, Len(all))

updateRecent(prev, path) == SubSeq(<<path>> \o FilterOut(prev, path), 1,
                                   IF Len(FilterOut(prev, path)) + 1 < 5
                                   THEN Len(FilterOut(prev, path)) + 1 ELSE 5)

----------------------------------------------------------------------------
(* Store operations, each run from its call to the point where it returns *)
(* or suspends at an await.  The result is the store it leaves and the    *)
(* requests it issued.                                                     *)

Effect(st, sc, pv, sm, ch) == [st |-> st, sc |-> sc, pv |-> pv, sm |-> sm, ch |-> ch]

NoEffect(st) == Effect(st, EmptyBag, EmptyBag, EmptyBag, EmptyBag)

\* Effect f of an operation run on the store that effect e left: f's store,
\* and the requests of both.
Join(e, f) ==
    Effect(f.st, e.sc (+) f.sc, e.pv (+) f.pv, e.sm (+) f.sm, e.ch (+) f.ch)

\* Variant: the offset computed from the 1-based page without the -1.
PreviewPayload_OffsetFromPage(st) ==
    [path |-> st.selectedPath,
     limit |-> st.preview.pageSize,
     offset |-> st.preview.page * st.preview.pageSize,
     order_by |-> st.preview.sort,
     filters |-> st.preview.filters]

PreviewPayload(st) ==
    [path |-> st.selectedPath,
     limit |-> st.preview.pageSize,
     offset |-> (st.preview.page - 1) * st.preview.pageSize,
     order_by |-> st.preview.sort,
     filters |-> st.preview.filters]

\* Variant: refreshPreview marks the session loading and keeps its error.
refreshPreview_KeepsError(st) ==
    IF st.selectedPath = NoPath THEN NoEffect(st)
    ELSE Effect([st EXCEPT !.preview = [st.preview EXCEPT !.isLoading = TRUE]],
                EmptyBag,
                SetToBag({[payload |-> PreviewPayload(st), preview |-> st.preview]}),
                EmptyBag, EmptyBag)

refreshPreview(st) ==
    IF st.selectedPath = NoPath THEN NoEffect(st)
    ELSE Effect([st EXCEPT !.preview = [st.preview EXCEPT !.isLoading = TRUE,
                                                          !.error = NoError]],
                EmptyBag,
                SetToBag({[payload |-> PreviewPayload(st), preview |-> st.preview]}),
                EmptyBag, EmptyBag)

setPage(st, page) ==
    refreshPreview([st EXCEPT !.preview.page = page])

\* Variant: the page size changes and the page is kept.
setPageSize_KeepPage(st, pageSize) ==
    refreshPreview([st EXCEPT !.preview.pageSize = pageSize])

setPageSize(st, pageSize) ==
    refreshPreview([st EXCEPT !.preview.pageSize = pageSize, !.preview.page = 1])

updateSort(st, sort) ==
    refreshPreview([st EXCEPT !.preview.sort = sort, !.preview.page = 1])

\* Variant: a change of the filters reloads the summary as well.
updateFilters_RefreshesSummary(st, filters) ==
    LET e1 == refreshPreview([st EXCEPT !.preview.filters = filters, !.preview.page = 1])
    IN IF st.selectedPath = NoPath THEN e1
       ELSE Effect([e1.st EXCEPT !.summary.isLoading = TRUE], e1.sc, e1.pv,
                   SetToBag({[path |-> st.selectedPath]}), e1.ch)

updateFilters(st, filters) ==
    refreshPreview([st EXCEPT !.preview.filters = filters, !.preview.page = 1])

\* Variant: refreshSummary without the test of the schema.
refreshSummary_NoSchemaTest(st) ==
    IF st.selectedPath = NoPath THEN NoEffect(st)
    ELSE Effect([st EXCEPT !.summary = [initialSummaryState EXCEPT !.isLoading = TRUE]],
                EmptyBag, EmptyBag,
                SetToBag({[path |-> st.selectedPath]}),
                EmptyBag)

refreshSummary(st) ==
    IF st.selectedPath = NoPath \/ Len(st.schema) = 0 THEN NoEffect(st)
    ELSE Effect([st EXCEPT !.summary = [initialSummaryState EXCEPT !.isLoading = TRUE]],
                EmptyBag, EmptyBag,
                SetToBag({[path |-> st.selectedPath]}),
                EmptyBag)

ChartPayload(st) ==
    [path |-> st.selectedPath,
     chart_type |-> st.chart.options.chart_type,
     time_column |-> st.chart.options.time_column,
     value_columns |-> st.chart.options.value_columns,
     time_bucket |-> st.chart.options.time_bucket,
     interpolation |-> st.chart.options.interpolation]

\* Variant: refreshChart without the test of the time column.
refreshChart_NoTimeColumnTest(st) ==
    IF st.selectedPath = NoPath \/ Len(st.chart.options.value_columns) = 0
    THEN NoEffect(st)
    ELSE Effect([st EXCEPT !.chart = [st.chart EXCEPT !.isLoading = TRUE,
                                                      !.error = NoError]],
                EmptyBag, EmptyBag, EmptyBag,
                SetToBag({[payload |-> ChartPayload(st), chart |-> st.chart]}))

\* Variant: refreshChart without the test of value_columns.
refreshChart_NoValueColumnsTest(st) ==
    LET isTimeSeries == st.chart.options.chart_type \in {"line", "bar"}
    IN IF st.selectedPath = NoPath
       THEN NoEffect(st)
       ELSE IF isTimeSeries /\ st.chart.options.time_column = NullColumn
       THEN NoEffect([st EXCEPT !.chart.isLoading = FALSE,
                                !.chart.error = "Time column not selected."])
       ELSE Effect([st EXCEPT !.chart = [st.chart EXCEPT !.isLoading = TRUE,
                                                         !.error = NoError]],
                   EmptyBag, EmptyBag, EmptyBag,
                   SetToBag({[payload |-> ChartPayload(st), chart |-> st.chart]}))

refreshChart(st) ==
    LET isTimeSeries == st.chart.options.chart_type \in {"line", "bar"}
    IN IF st.selectedPath = NoPath \/ Len(st.chart.options.value_columns) = 0
       THEN NoEffect(st)
       ELSE IF isTimeSeries /\ st.chart.options.time_column = NullColumn
       THEN NoEffect([st EXCEPT !.chart.isLoading = FALSE,
                                !.chart.error = "Time column not selected."])
       ELSE Effect([st EXCEPT !.chart = [st.chart EXCEPT !.isLoading = TRUE,
                                                         !.error = NoError]],
                   EmptyBag, EmptyBag, EmptyBag,
                   SetToBag({[payload |-> ChartPayload(st), chart |-> st.chart]}))

\* Variant: the partial options replace the options, the fields it lacks
\* falling back to their initial values.
setChartOptions_Replace(st, options) ==
    refreshChart([st EXCEPT !.chart.options = Merge(initialChartState.options, options)])

\* setChartOptions: the shallow merge of the options, then refreshChart.
setChartOptions(st, options) ==
    refreshChart([st EXCEPT !.chart.options = Merge(st.chart.options, options)])

\* Variant: the preview session is marked loading and keeps its contents.
selectFile_KeepPreview(st, path) ==
    IF st.selectedPath = path THEN NoEffect(st)
    ELSE Effect([st EXCEPT
                    !.selectedPath = path,
                    !.schema = <<>>,
                    !.preview = [st.preview EXCEPT !.isLoading = TRUE],
                    !.summary = [initialSummaryState EXCEPT !.isLoading = TRUE],
                    !.chart = [initialChartState EXCEPT !.isLoading = TRUE],
                    !.recentFiles = updateRecent(st.recentFiles, path)],
                SetToBag({[path |-> path]}), EmptyBag, EmptyBag, EmptyBag)

\* Variant: no early return when the path is already selected.
selectFile_NoSamePathReturn(st, path) ==
    Effect([st EXCEPT
                !.selectedPath = path,
                !.schema = <<>>,
                !.preview = [initialPreviewState EXCEPT !.isLoading = TRUE],
                !.summary = [initialSummaryState EXCEPT !.isLoading = TRUE],
                !.chart = [initialChartState EXCEPT !.isLoading = TRUE],
                !.recentFiles = updateRecent(st.recentFiles, path)],
           SetToBag({[path |-> path]}), EmptyBag, EmptyBag, EmptyBag)

\* selectFile up to `await fetchSchema(path)`.
selectFile(st, path) ==
    IF st.selectedPath = path THEN NoEffect(st)
    ELSE Effect([st EXCEPT
                    !.selectedPath = path,
                    !.schema = <<>>,
                    !.preview = [initialPreviewState EXCEPT !.isLoading = TRUE],
                    !.summary = [initialSummaryState EXCEPT !.isLoading = TRUE],
                    !.chart = [initialChartState EXCEPT !.isLoading = TRUE],
                    !.recentFiles = updateRecent(st.recentFiles, path)],
                SetToBag({[path |-> path]}), EmptyBag, EmptyBag, EmptyBag)

\* selectFile resumed with the schema: the set, then the three refreshes of
\* Promise.all, each run in turn up to its own await.
selectFileSchemaLoaded(st, schema) ==
    LET s0 == [st EXCEPT
                  !.schema = schema,
                  !.chart.options = Merge(initialChartState.options,
                                          getDefaultChartOptions(schema))]
        e1 == refreshPreview(s0)
        e2 == Join(e1, refreshSummary(e1.st))
    IN Join(e2, refreshChart(e2.st))

\* Variant: the catch block records the error in the preview session only.
selectFileSchemaFailed_PreviewOnly(st, errorMessage) ==
    NoEffect([st EXCEPT
                !.schema = <<>>,
                !.preview = [initialPreviewState EXCEPT !.isLoading = FALSE,
                                                        !.error = errorMessage]])

\* Variant: the catch block also takes the selected path off recentFiles.
selectFileSchemaFailed_DropsRecent(st, errorMessage) ==
    NoEffect([st EXCEPT
                !.schema = <<>>,
                !.recentFiles = FilterOut(st.recentFiles, st.selectedPath),
                !.preview = [initialPreviewState EXCEPT !.isLoading = FALSE,
                                                        !.error = errorMessage],
                !.summary = [initialSummaryState EXCEPT !.isLoading = FALSE,
                                                        !.error = errorMessage],
                !.chart = [initialChartState EXCEPT !.isLoading = FALSE,
                                                    !.error = errorMessage]])

\* Variant: the catch block also clears the selection.
selectFileSchemaFailed_ClearsSelection(st, errorMessage) ==
    NoEffect([st EXCEPT
                !.selectedPath = NoPath,
                !.schema = <<>>,
                !.preview = [initialPreviewState EXCEPT !.isLoading = FALSE,
                                                        !.error = errorMessage],
                !.summary = [initialSummaryState EXCEPT !.isLoading = FALSE,
                                                        !.error = errorMessage],
                !.chart = [initialChartState EXCEPT !.isLoading = FALSE,
                                                    !.error = errorMessage]])

\* selectFile resumed in its catch block.
selectFileSchemaFailed(st, errorMessage) ==
    NoEffect([st EXCEPT
                !.schema = <<>>,
                !.preview = [initialPreviewState EXCEPT !.isLoading = FALSE,
                                                        !.error = errorMessage],
                !.summary = [initialSummaryState EXCEPT !.isLoading = FALSE,
                                                        !.error = errorMessage],
                !.chart = [initialChartState EXCEPT !.isLoading = FALSE,
                                                    !.error = errorMessage]])

\* init up to `await fetchCsvFiles()`.
init(st) == NoEffect([st EXCEPT !.filesLoading = TRUE, !.filesError = NoError])

\* init resumed with the listing: the set, then selectFile of the first file
\* run up to its own await.
initFilesLoaded(st, files) ==
    IF Len(files) > 0
    THEN selectFile([st EXCEPT !.files = files, !.filesLoading = FALSE], files[1].path)
    ELSE NoEffect([st EXCEPT !.files = files, !.filesLoading = FALSE])

\* init resumed in its catch block.
initFilesFailed(st, message) ==
    NoEffect([st EXCEPT !.filesLoading = FALSE, !.filesError = message])

\* Variant: the response is merged into the preview state held when it
\* arrives, which keeps that state's page, pageSize, sort and filters.
previewLoaded_OntoCurrent(st, req, result) ==
    NoEffect([st EXCEPT !.preview = [st.preview EXCEPT
                                        !.rows = result.rows,
                                        !.columns = result.columns,
                                        !.totalRows = result.total_rows,
                                        !.isLoading = FALSE,
                                        !.error = NoError]])

\* refreshPreview resumed with the response; req.preview is the `preview`
\* the call read before it suspended.
previewLoaded(st, req, result) ==
    NoEffect([st EXCEPT !.preview = [req.preview EXCEPT
                                        !.rows = result.rows,
                                        !.columns = result.columns,
                                        !.totalRows = result.total_rows,
                                        !.isLoading = FALSE,
                                        !.error = NoError]])

previewFailed(st, req, message) ==
    NoEffect([st EXCEPT !.preview = [req.preview EXCEPT
                                        !.rows = <<>>,
                                        !.columns = <<>>,
                                        !.totalRows = 0,
                                        !.isLoading = FALSE,
                                        !.error = message]])

summaryLoaded(st, response) ==
    NoEffect([st EXCEPT !.summary = [data |-> response.summaries,
                                     isLoading |-> FALSE, error |-> NoError]])

\* Variant: a summary failure also empties the preview rows.
summaryFailed_BlanksPreview(st, message) ==
    NoEffect([st EXCEPT !.summary = [initialSummaryState EXCEPT
                                        !.isLoading = FALSE, !.error = message],
                        !.preview.rows = <<>>])

summaryFailed(st, message) ==
    NoEffect([st EXCEPT !.summary = [initialSummaryState EXCEPT
                                        !.isLoading = FALSE, !.error = message]])

\* refreshChart resumed; req.chart is the `chart` read before it suspended.
chartLoaded(st, req, result) ==
    NoEffect([st EXCEPT !.chart = [req.chart EXCEPT
                                      !.data = result.rows,
                                      !.columns = result.columns,
                                      !.isLoading = FALSE]])

chartFailed(st, req, message) ==
    NoEffect([st EXCEPT !.chart = [req.chart EXCEPT
                                      !.data = <<>>,
                                      !.columns = <<>>,
                                      !.isLoading = FALSE,
                                      !.error = message]])

----------------------------------------------------------------------------------------------------------------------------------------------------
(* Steps of the event loop *)

Init ==
    /\ store = initialStore
    /\ schemaReqs = EmptyBag
    /\ previewReqs = EmptyBag
    /\ summaryReqs = EmptyBag
    /\ chartReqs = EmptyBag
    /\ filesReqs = EmptyBag
    /\ rejected = FALSE
    /\ search = initialSearchState
    /\ locateReqs = EmptyBag
    /\ calls = 0
    /\ last = <<"create", 0>>
    /\ latestPreview = NoRequest
    /\ latestChart = NoRequest

Without(bag, req) == bag (-) SetToBag({req})

\* Variant: fetchSchema awaited outside the try block of selectFile.
UncaughtFailures_Schema == {"schema failed"}

\* The gateway failures that no catch block handles, so that the operation
\* awaiting the call rejects: every await of a gateway call (fetchCsvFiles,
\* fetchSchema, fetchPreview, fetchSummary, fetchChartData) is inside a try
\* whose catch block stores the message and returns.
UncaughtFailures == {}

\* One step: the store becomes e.st and the requests e issued join those in
\* flight (sc, pv, sm, ch: what stays in flight of each kind).
Step(e, sc, pv, sm, ch, op, arg) ==
    /\ store' = e.st
    /\ schemaReqs' = sc (+) e.sc
    /\ previewReqs' = pv (+) e.pv
    /\ summaryReqs' = sm (+) e.sm
    /\ chartReqs' = ch (+) e.ch
    /\ last' = <<op, arg>>
    /\ latestPreview' =
          IF e.pv # EmptyBag
          THEN <<(CHOOSE r \in BagToSet(e.pv) : TRUE).payload>>
          ELSE IF e.st.selectedPath # store.selectedPath THEN NoRequest
          ELSE latestPreview
    /\ latestChart' =
          IF e.ch # EmptyBag
          THEN <<(CHOOSE r \in BagToSet(e.ch) : TRUE).payload>>
          ELSE IF e.st.selectedPath # store.selectedPath THEN NoRequest
          ELSE latestChart

\* A store operation called from the user interface.
Call(e, op, arg) ==
    /\ calls < MaxCalls
    /\ calls' = calls + 1
    /\ UNCHANGED <<filesReqs, rejected, search, locateReqs>>
    /\ Step(e, schemaReqs, previewReqs, summaryReqs, chartReqs, op, arg)

\* A gateway response resuming the operation that awaits it.
Resume(e, sc, pv, sm, ch, op, arg) ==
    /\ UNCHANGED <<calls, filesReqs, search, locateReqs>>
    /\ rejected' = (rejected \/ op \in UncaughtFailures)
    /\ Step(e, sc, pv, sm, ch, op, arg)

SelectFile(path) ==
    Call(selectFile(store, path),
         IF store.selectedPath = path THEN "selectFile same" ELSE "selectFile", path)

RefreshPreview == Call(refreshPreview(store), "refreshPreview", 0)

SetPage(page) == Call(setPage(store, page), "setPage", page)

SetPageSize(pageSize) == Call(setPageSize(store, pageSize), "setPageSize", pageSize)

UpdateSort(sort) == Call(updateSort(store, sort), "updateSort", sort)

UpdateFilters(filters) == Call(updateFilters(store, filters), "updateFilters", filters)

SchemaResolves(req) ==
    /\ BagIn(req, schemaReqs)
    /\ Resume(selectFileSchemaLoaded(store, SchemaOf(req.path)),
              Without(schemaReqs, req), previewReqs, summaryReqs, chartReqs,
              "schema loaded", req.path)

SchemaRejects(req, message) ==
    /\ BagIn(req, schemaReqs)
    /\ Resume(selectFileSchemaFailed(store, message),
              Without(schemaReqs, req), previewReqs, summaryReqs, chartReqs,
              "schema failed", req.path)

PreviewResolves(req) ==
    /\ BagIn(req, previewReqs)
    /\ Resume(previewLoaded(store, req, PreviewResult(req.payload)),
              schemaReqs, Without(previewReqs, req), summaryReqs, chartReqs,
              "preview loaded", 0)

PreviewRejects(req, message) ==
    /\ BagIn(req, previewReqs)
    /\ Resume(previewFailed(store, req, message),
              schemaReqs, Without(previewReqs, req), summaryReqs, chartReqs,
              "preview failed", 0)

SummaryResolves(req) ==
    /\ BagIn(req, summaryReqs)
    /\ Resume(summaryLoaded(store, SummaryResult(req.path)),
              schemaReqs, previewReqs, Without(summaryReqs, req), chartReqs,
              "summary loaded", 0)

SummaryRejects(req, message) ==
    /\ BagIn(req, summaryReqs)
    /\ Resume(summaryFailed(store, message),
              schemaReqs, previewReqs, Without(summaryReqs, req), chartReqs,
              "summary failed", 0)

ChartResolves(req) ==
    /\ BagIn(req, chartReqs)
    /\ Resume(chartLoaded(store, req, ChartResult(req.payload)),
              schemaReqs, previewReqs, summaryReqs, Without(chartReqs, req),
              "chart loaded", 0)

ChartRejects(req, message) ==
    /\ BagIn(req, chartReqs)
    /\ Resume(chartFailed(store, req, message),
              schemaReqs, previewReqs, summaryReqs, Without(chartReqs, req),
              "chart failed", 0)

PreviewResponse ==
    \/ \E req \in BagToSet(previewReqs) : PreviewResolves(req)
    \/ \E req \in BagToSet(previewReqs), message \in ErrMsgs : PreviewRejects(req, message)

Response ==
    \/ \E req \in BagToSet(schemaReqs) : SchemaResolves(req)
    \/ \E req \in BagToSet(schemaReqs), message \in ErrMsgs : SchemaRejects(req, message)
    \/ PreviewResponse
    \/ \E req \in BagToSet(summaryReqs) : SummaryResolves(req)
    \/ \E req \in BagToSet(summaryReqs), message \in ErrMsgs : SummaryRejects(req, message)
    \/ \E req \in BagToSet(chartReqs) : ChartResolves(req)
    \/ \E req \in BagToSet(chartReqs), message \in ErrMsgs : ChartRejects(req, message)

\* The coordinator: dataset selection, the refreshes and every response.
Next ==
    \/ \E path \in Paths : SelectFile(path)
    \/ RefreshPreview
    \/ Response

Spec == Init /\ [][Next]_vars

----------------------------------------------------------------------------
(* The preview session on its own: it starts with no dataset selected, or *)
(* with dataset A selected and its schema, preview, summary and chart all *)
(* loaded, and runs the pagination, sort and filter operations.           *)

ReadyStore ==
    LET s1 == selectFile(initialStore, "A").st
        e2 == selectFileSchemaLoaded(s1, SchemaOf("A"))
        pv == CHOOSE r \in BagToSet(e2.pv) : TRUE
        ch == CHOOSE r \in BagToSet(e2.ch) : TRUE
        s3 == previewLoaded(e2.st, pv, PreviewResult(pv.payload)).st
        s4 == summaryLoaded(s3, SummaryResult("A")).st
    IN chartLoaded(s4, ch, ChartResult(ch.payload)).st

InitPreview ==
    /\ store \in {initialStore, ReadyStore}
    /\ schemaReqs = EmptyBag
    /\ previewReqs = EmptyBag
    /\ summaryReqs = EmptyBag
    /\ chartReqs = EmptyBag
    /\ filesReqs = EmptyBag
    /\ rejected = FALSE
    /\ search = initialSearchState
    /\ locateReqs = EmptyBag
    /\ calls = 0
    /\ last = <<"create", 0>>
    /\ latestPreview = IF store.selectedPath = NoPath THEN NoRequest
                       ELSE <<PreviewPayload(store)>>
    /\ latestChart = IF store.chart.data = <<>> THEN NoRequest
                     ELSE <<ChartPayload(store)>>

NextPreview ==
    \/ RefreshPreview
    \/ \E page \in Pages : SetPage(page)
    \/ \E pageSize \in PageSizes : SetPageSize(pageSize)
    \/ \E sort \in Sorts : UpdateSort(sort)
    \/ \E filters \in Filters : UpdateFilters(filters)
    \/ PreviewResponse

SpecPreview == InitPreview /\ [][NextPreview]_vars

----------------------------------------------------------------------------
(* Properties of the coordinator, checked under Spec *)

PathsOf(records) == {records[i].path : i \in 1..Len(records)}

SeqRange(seq) == {seq[i] : i \in 1..Len(seq)}

\* C2: with dataset B selected, the preview rows, the summary data and the
\* chart data never hold a response that was requested for another path.
C2_NoDataOfAnotherPath ==
    store.selectedPath # NoPath =>
        /\ PathsOf(store.preview.rows) \subseteq {store.selectedPath}
        /\ PathsOf(store.summary.data) \subseteq {store.selectedPath}
        /\ PathsOf(store.chart.data) \subseteq {store.selectedPath}

\* C3: with dataset B selected, the schema is empty or B's schema, and the
\* chart's time_column and value_columns are columns of B's schema.
C3_SchemaOfSelectedPath ==
    store.selectedPath # NoPath =>
        /\ store.schema \in {<<>>, SchemaOf(store.selectedPath)}
        /\ store.chart.options.time_column
              \in {NullColumn} \cup SeqRange(ColumnNames(SchemaOf(store.selectedPath)))
        /\ SeqRange(store.chart.options.value_columns)
              \subseteq SeqRange(ColumnNames(SchemaOf(store.selectedPath)))

\* C4: in the state right after selectFile(path) with a path that was not
\* selected, selectedPath is path, the schema is empty, the three sessions
\* have their initial contents with isLoading true, and the schema fetch for
\* path is in flight.
C4_SelectFileResets ==
    last[1] = "selectFile" =>
        /\ store.selectedPath = last[2]
        /\ store.schema = <<>>
        /\ store.preview = [rows |-> <<>>, columns |-> <<>>, totalRows |-> 0,
                            page |-> 1, pageSize |-> DefaultPageSize,
                            sort |-> <<>>, filters |-> <<>>,
                            isLoading |-> TRUE, error |-> NoError]
        /\ store.summary = [data |-> <<>>, isLoading |-> TRUE, error |-> NoError]
        /\ store.chart = [data |-> <<>>, columns |-> <<>>,
                          options |-> [chart_type |-> "line",
                                       time_column |-> NullColumn,
                                       value_columns |-> <<>>,
                                       time_bucket |-> "5 minutes",
                                       interpolation |-> "none"],
                          isLoading |-> TRUE, error |-> NoError]
        /\ BagIn([path |-> last[2]], schemaReqs)

\* A second selection made while the first one's preview request is still in flight.
C4_Witness ==
    /\ last = <<"selectFile", "B">>
    /\ store.recentFiles = <<"B", "A">>
    /\ previewReqs # EmptyBag

\* C5: selectFile(path) with path already selected changes no store field
\* and issues no gateway call.
C5_SelectSameIsNoOp ==
    [][last'[1] = "selectFile same" => (store' = store /\ UNCHANGED reqVars)]_vars

\* selectFile of the selected path, after that selection ended in an error.
C5_Witness ==
    /\ last[1] = "selectFile same"
    /\ store.preview.error # NoError
    /\ store.selectedPath = last[2]

\* C6: right after the schema fetch of the selected path fails, the three
\* sessions hold the same error message, none is loading, schema and data
\* are empty, and the step issues no preview, summary or chart request.
C6_SchemaFailureState ==
    (last[1] = "schema failed" /\ last[2] = store.selectedPath) =>
        /\ store.preview.error \in ErrMsgs
        /\ store.summary.error = store.preview.error
        /\ store.chart.error = store.preview.error
        /\ ~store.preview.isLoading /\ ~store.summary.isLoading /\ ~store.chart.isLoading
        /\ store.schema = <<>>
        /\ store.preview.rows = <<>> /\ store.preview.totalRows = 0
        /\ store.summary.data = <<>>
        /\ store.chart.data = <<>>

\* C6: the state above holds after every failed schema fetch of the selected
\* path, and the step that handles the failure issues no preview, summary or
\* chart request.
C6_SchemaFailure ==
    /\ []C6_SchemaFailureState
    /\ [][last'[1] = "schema failed" =>
            UNCHANGED <<previewReqs, summaryReqs, chartReqs>>]_vars

\* The schema fetch of the second selection failed.
C6_Witness ==
    /\ last = <<"schema failed", "B">>
    /\ store.selectedPath = "B"
    /\ store.recentFiles = <<"B", "A">>

----------------------------------------------------------------------------
(* Properties of the preview session, checked under SpecPreview *)

PreviewIdle == store.selectedPath # NoPath /\ previewReqs = EmptyBag

\* C1: once every preview request has resolved, page, pageSize, sort and
\* filters are those the latest-issued request was built from, and rows and
\* totalRows are that request's result (or empty, with its error recorded).
C1_LatestRequestWins ==
    (PreviewIdle /\ latestPreview # NoRequest) =>
        LET payload == latestPreview[1]
            result == PreviewResult(payload)
        IN /\ store.preview.pageSize = payload.limit
           /\ (store.preview.page - 1) * store.preview.pageSize = payload.offset
           /\ store.preview.sort = payload.order_by
           /\ store.preview.filters = payload.filters
           /\ \/ /\ store.preview.error = NoError
                 /\ store.preview.rows = result.rows
                 /\ store.preview.totalRows = result.total_rows
              \/ /\ store.preview.error # NoError
                 /\ store.preview.rows = <<>>
                 /\ store.preview.totalRows = 0

CeilDiv(a, b) == (a + b - 1) \div b

\* C7: with a dataset selected, totalRows > 0 implies
\* 1 <= page <= ceil(totalRows / pageSize), and totalRows = 0 implies page = 1.
C7_PageInRange ==
    store.selectedPath # NoPath =>
        /\ store.preview.totalRows > 0 =>
              /\ 1 <= store.preview.page
              /\ store.preview.page
                    <= CeilDiv(store.preview.totalRows, store.preview.pageSize)
        /\ store.preview.totalRows = 0 => store.preview.page = 1

IssuedWithOffsetZero ==
    store.selectedPath # NoPath =>
        /\ latestPreview # NoRequest
        /\ latestPreview[1].offset = 0
        /\ \E req \in BagToSet(previewReqs) : req.payload = latestPreview[1]

\* C8: right after setPageSize(n), pageSize is n and page is 1; right after
\* updateSort(s) / updateFilters(f), sort / filters is the new value and page
\* is 1; the preview request the call issued has offset 0.
C8_ParameterChangeResetsPage ==
    /\ last[1] = "setPageSize" =>
          /\ store.preview.pageSize = last[2] /\ store.preview.page = 1
          /\ IssuedWithOffsetZero
          /\ store.selectedPath # NoPath => latestPreview[1].limit = last[2]
    /\ last[1] = "updateSort" =>
          /\ store.preview.sort = last[2] /\ store.preview.page = 1
          /\ IssuedWithOffsetZero
          /\ store.selectedPath # NoPath => latestPreview[1].order_by = last[2]
    /\ last[1] = "updateFilters" =>
          /\ store.preview.filters = last[2] /\ store.preview.page = 1
          /\ IssuedWithOffsetZero
          /\ store.selectedPath # NoPath => latestPreview[1].filters = last[2]

\* setPageSize called while the request of an earlier page change (to a
\* page other than 1) is still in flight.
C8_Witness ==
    /\ last = <<"setPageSize", 100>>
    /\ \E req \in BagToSet(previewReqs) : req.payload.offset > 0

IssuesPreview == {"refreshPreview", "setPage", "setPageSize", "updateSort", "updateFilters"}

C9_RequestFromState ==
    (last[1] \in IssuesPreview /\ store.selectedPath # NoPath) =>
        /\ latestPreview =
              <<[path |-> store.selectedPath,
                 limit |-> store.preview.pageSize,
                 offset |-> (store.preview.page - 1) * store.preview.pageSize,
                 order_by |-> store.preview.sort,
                 filters |-> store.preview.filters]>>
        /\ \E req \in BagToSet(previewReqs) : req.payload = latestPreview[1]

\* C9: the request refreshPreview issues carries the selected path, limit =
\* pageSize, offset = (page - 1) * pageSize and the sort and filters of the
\* preview state; with no dataset selected refreshPreview issues no request
\* and changes no state.
C9_PreviewRequest ==
    /\ []C9_RequestFromState
    /\ [][(last'[1] = "refreshPreview" /\ store.selectedPath = NoPath) =>
            (store' = store /\ UNCHANGED reqVars)]_vars

\* refreshPreview called on page 2 of a filtered view.
C9_Witness ==
    /\ last[1] = "refreshPreview"
    /\ store.preview.page = 2
    /\ latestPreview # NoRequest
    /\ latestPreview[1].offset = DefaultPageSize

\* C10: a failed preview request empties rows and columns, zeroes totalRows,
\* clears isLoading and records the message while page, pageSize, sort and
\* filters keep their values; a successful one replaces rows, columns and
\* totalRows by the response, clears isLoading and clears the error.
C10_PreviewResponseEffect ==
    [][/\ last'[1] = "preview failed" =>
             /\ store'.preview.rows = <<>> /\ store'.preview.columns = <<>>
             /\ store'.preview.totalRows = 0
             /\ ~store'.preview.isLoading
             /\ store'.preview.error \in ErrMsgs
             /\ store'.preview.page = store.preview.page
             /\ store'.preview.pageSize = store.preview.pageSize
             /\ store'.preview.sort = store.preview.sort
             /\ store'.preview.filters = store.preview.filters
       /\ last'[1] = "preview loaded" =>
             /\ \E req \in BagToSet(previewReqs) :
                   /\ store'.preview.rows = PreviewResult(req.payload).rows
                   /\ store'.preview.columns = PreviewResult(req.payload).columns
                   /\ store'.preview.totalRows = PreviewResult(req.payload).total_rows
             /\ ~store'.preview.isLoading
             /\ store'.preview.error = NoError
      ]_vars

----------------------------------------------------------------------------
(* The recent-files list: six datasets, selected in any order, from an    *)
(* empty list or after A, B, C and D have been selected and loaded in     *)
(* turn; the schema request of a selection succeeds or fails.             *)

RecentPaths == {"A", "B", "C", "D", "E", "F"}

\* The store after selectFile(path) and its four responses, all successful.
CompletedSelect(st, path) ==
    LET s1 == selectFile(st, path).st
        e2 == selectFileSchemaLoaded(s1, SchemaOf(path))
        pv == CHOOSE r \in BagToSet(e2.pv) : TRUE
        s3 == previewLoaded(e2.st, pv, PreviewResult(pv.payload)).st
        s4 == summaryLoaded(s3, SummaryResult(path)).st
    IN IF e2.ch = EmptyBag THEN s4
       ELSE LET ch == CHOOSE r \in BagToSet(e2.ch) : TRUE
            IN chartLoaded(s4, ch, ChartResult(ch.payload)).st

RECURSIVE SelectedInOrder(_)
SelectedInOrder(paths) ==
    IF paths = <<>> THEN initialStore
    ELSE CompletedSelect(SelectedInOrder(SubSeq(paths, 1, Len(paths) - 1)), paths[Len(paths)])

InitRecent ==
    /\ store \in {initialStore, SelectedInOrder(<<"A", "B", "C", "D">>)}
    /\ schemaReqs = EmptyBag
    /\ previewReqs = EmptyBag
    /\ summaryReqs = EmptyBag
    /\ chartReqs = EmptyBag
    /\ filesReqs = EmptyBag
    /\ rejected = FALSE
    /\ search = initialSearchState
    /\ locateReqs = EmptyBag
    /\ calls = 0
    /\ last = <<"create", 0>>
    /\ latestPreview = IF store.selectedPath = NoPath THEN NoRequest
                       ELSE <<PreviewPayload(store)>>
    /\ latestChart = IF store.chart.data = <<>> THEN NoRequest
                     ELSE <<ChartPayload(store)>>

NextRecent ==
    \/ \E path \in RecentPaths : SelectFile(path)
    \/ \E req \in BagToSet(schemaReqs) : SchemaResolves(req)
    \/ \E req \in BagToSet(schemaReqs) : \E message \in ErrMsgs : SchemaRejects(req, message)

SpecRecent == InitRecent /\ [][NextRecent]_vars

\* C11: the recent-files list never has more than 5 entries and never holds
\* a path twice, whatever selections were made and however their schema
\* requests ended.
C11_RecentFilesBounded ==
    /\ Len(store.recentFiles) <= 5
    /\ Cardinality(SeqRange(store.recentFiles)) = Len(store.recentFiles)

\* A full list in which a path already listed was selected again.
C11_Witness ==
    /\ Len(store.recentFiles) = 5
    /\ last[1] = "selectFile"
    /\ store.recentFiles[1] = "B"
    /\ "A" \notin SeqRange(store.recentFiles)

\* The positions of prev that hold something other than path.
KeptPositions(prev, path) == {i \in 1..Len(prev) : prev[i] # path}

\* C12: selecting a path other than the selected one makes the list that
\* path followed by the previous entries other than it, in their previous
\* order, cut to 5 entries; from [F,E,D,C,B], selecting B gives [B,F,E,D,C].
C12_RecentFilesUpdate ==
    [][last'[1] = "selectFile" =>
         LET p == last'[2]
             prev == store.recentFiles
             kept == KeptPositions(prev, p)
             new == store'.recentFiles
         IN /\ new[1] = p
            /\ Len(new) = IF Cardinality(kept) + 1 < 5 THEN Cardinality(kept) + 1 ELSE 5
            /\ \A i \in 2..Len(new) :
                  \E j \in kept : /\ new[i] = prev[j]
                                  /\ Cardinality({k \in kept : k < j}) = i - 2
            /\ (prev = <<"F", "E", "D", "C", "B">> /\ p = "B")
                  => new = <<"B", "F", "E", "D", "C">>]_vars

\* A, B, C, D, E, F selected in order and then B again.
C12_Witness ==
    /\ last = <<"selectFile", "B">>
    /\ store.recentFiles = <<"B", "F", "E", "D", "C">>
    /\ calls = 3

----------------------------------------------------------------------------
(* Loading the dataset list: init runs when the page mounts and again on  *)
(* every reload; in between the user selects datasets.                     *)

\* What the listing endpoint returns: no dataset, or A and B.
Listings == {<<>>, <<[path |-> "A"], [path |-> "B"]>>}

FilesRequest == [op |-> "fetchCsvFiles"]

InitCall ==
    /\ calls < MaxCalls
    /\ calls' = calls + 1
    /\ filesReqs' = filesReqs (+) SetToBag({FilesRequest})
    /\ UNCHANGED <<rejected, search, locateReqs>>
    /\ Step(init(store), schemaReqs, previewReqs, summaryReqs, chartReqs, "init", 0)

FilesResolves(files) ==
    /\ BagIn(FilesRequest, filesReqs)
    /\ filesReqs' = Without(filesReqs, FilesRequest)
    /\ UNCHANGED <<calls, rejected, search, locateReqs>>
    /\ Step(initFilesLoaded(store, files), schemaReqs, previewReqs, summaryReqs, chartReqs,
            "files loaded", files)

FilesRejects(message) ==
    /\ BagIn(FilesRequest, filesReqs)
    /\ filesReqs' = Without(filesReqs, FilesRequest)
    /\ UNCHANGED <<calls, search, locateReqs>>
    /\ rejected' = (rejected \/ "files failed" \in UncaughtFailures)
    /\ Step(initFilesFailed(store, message), schemaReqs, previewReqs, summaryReqs, chartReqs,
            "files failed", message)

\* The file browser offers the datasets of the list last loaded.
SelectListedFile(path) ==
    /\ path \in PathsOf(store.files)
    /\ SelectFile(path)

NextInit ==
    \/ InitCall
    \/ \E files \in Listings : FilesResolves(files)
    \/ \E message \in ErrMsgs : FilesRejects(message)
    \/ \E path \in Paths : SelectListedFile(path)
    \/ Response

SpecInit == Init /\ [][NextInit]_vars

\* C13: right after the listing request of init failed, filesError holds the
\* message, filesLoading is false, the list of files is empty and init has
\* not rejected; on the first run of init and on every reload.
C13_ListingFailure ==
    last[1] = "files failed" =>
        /\ store.filesError = last[2]
        /\ store.filesLoading = FALSE
        /\ store.files = <<>>
        /\ rejected = FALSE

\* C14: when the listing arrives with at least one dataset, init selects the
\* first one if none is selected; if one is selected it leaves the selection,
\* the schema and the three sessions as they are and issues no request.
C14_InitKeepsSelection ==
    [][(last'[1] = "files loaded" /\ Len(store'.files) > 0) =>
         IF store.selectedPath = NoPath
         THEN store'.selectedPath = store'.files[1].path
         ELSE /\ store'.selectedPath = store.selectedPath
              /\ store'.schema = store.schema
              /\ store'.preview = store.preview
              /\ store'.summary = store.summary
              /\ store'.chart = store.chart
              /\ UNCHANGED reqVars]_vars

----------------------------------------------------------------------------
(* The three sessions together: every operation of the store, from the    *)
(* store as created or with dataset A loaded.                              *)

\* Partial chart options passed to setChartOptions.
ChartPartials == {[value_columns |-> <<>>], [chart_type |-> "scatter"]}

RefreshSummary == Call(refreshSummary(store), "refreshSummary", 0)

RefreshChart == Call(refreshChart(store), "refreshChart", 0)

SetChartOptions(options) == Call(setChartOptions(store, options), "setChartOptions", options)

\* The calls made in a behaviour of the sessions specification.
MaxSessionCalls == 2

SessionCall ==
    \/ InitCall
    \/ \E path \in Paths : SelectFile(path)
    \/ RefreshPreview
    \/ SetPage(2)
    \/ SetPageSize(100)
    \/ \E sort \in Sorts \ {<<>>} : UpdateSort(sort)
    \/ \E filters \in Filters \ {<<>>} : UpdateFilters(filters)
    \/ RefreshSummary
    \/ RefreshChart
    \/ \E options \in ChartPartials : SetChartOptions(options)

NextSessions ==
    \/ calls < MaxSessionCalls /\ SessionCall
    \/ \E files \in Listings : FilesResolves(files)
    \/ \E message \in ErrMsgs : FilesRejects(message)
    \/ Response

SpecSessions == InitPreview /\ [][NextSessions]_vars

----------------------------------------------------------------------------
(* Responses and the sessions they belong to, checked under Spec *)

\* The request of bag `before` that the step took out of it.
Consumed(before, after, req) == CopiesIn(req, after) < CopiesIn(req, before)

\* The failed request was issued for a dataset that is no longer the
\* selected one, or is a preview request that a later one superseded.
StaleFailure ==
    \/ /\ last'[1] = "schema failed"
       /\ last'[2] # store.selectedPath
    \/ /\ last'[1] = "preview failed"
       /\ \E req \in BagToSet(previewReqs) :
             /\ Consumed(previewReqs, previewReqs', req)
             /\ \/ req.payload.path # store.selectedPath
                \/ <<req.payload>> # latestPreview
    \/ /\ last'[1] = "summary failed"
       /\ \E req \in BagToSet(summaryReqs) :
             /\ Consumed(summaryReqs, summaryReqs', req)
             /\ req.path # store.selectedPath
    \/ /\ last'[1] = "chart failed"
       /\ \E req \in BagToSet(chartReqs) :
             /\ Consumed(chartReqs, chartReqs', req)
             /\ req.payload.path # store.selectedPath

\* C16: a failure response of a superseded request, or of a request issued
\* for a previously selected dataset, leaves the store as it is.
C16_StaleFailureDropped == [][StaleFailure => store' = store]_vars

\* C17: a preview response, successful or failed, changes the preview
\* session only, a summary response the summary session only and a chart
\* response the chart session only, in whatever order they arrive.
C17_ResponseChangesOwnSession ==
    [][/\ last'[1] \in {"preview loaded", "preview failed"}
          => store' = [store EXCEPT !.preview = store'.preview]
       /\ last'[1] \in {"summary loaded", "summary failed"}
          => store' = [store EXCEPT !.summary = store'.summary]
       /\ last'[1] \in {"chart loaded", "chart failed"}
          => store' = [store EXCEPT !.chart = store'.chart]]_vars

\* The summary request failed after the preview and the chart had loaded.
C17_Witness ==
    /\ last[1] = "summary failed"
    /\ store.summary.error \in ErrMsgs
    /\ store.preview.rows # <<>> /\ store.preview.isLoading = FALSE
    /\ store.chart.data # <<>> /\ store.chart.isLoading = FALSE
    /\ store.preview.error = NoError /\ store.chart.error = NoError

----------------------------------------------------------------------------
(* Refreshing the summary and the chart, checked under SpecSessions *)

\* C18: refreshSummary called with no dataset selected, or with an empty
\* schema, issues no request and leaves the whole store as it is.
C18_RefreshSummaryNoOp ==
    [][(/\ last'[1] = "refreshSummary"
        /\ (store.selectedPath = NoPath \/ store.schema = <<>>))
       => (store' = store /\ UNCHANGED reqVars)]_vars

\* refreshSummary was called for a selected dataset whose schema request is
\* still in flight.
C18_Witness ==
    /\ last[1] = "refreshSummary"
    /\ store.selectedPath # NoPath
    /\ store.schema = <<>>
    /\ schemaReqs # EmptyBag
    /\ summaryReqs = EmptyBag
    /\ store.summary = [initialSummaryState EXCEPT !.isLoading = TRUE]

PreviewParameterOps == {"setPage", "setPageSize", "updateSort", "updateFilters"}

\* C19: setPage, setPageSize, updateSort and updateFilters issue no summary
\* request and leave the summary session as it is; a summary request holds
\* the dataset path and nothing else, and the data a summary response stores
\* is the summary of that path.
C19_SummaryIndependentOfPreview ==
    /\ [](\A req \in BagToSet(summaryReqs) : DOMAIN req = {"path"})
    /\ [][/\ last'[1] \in PreviewParameterOps
             => (summaryReqs' = summaryReqs /\ store'.summary = store.summary)
          /\ last'[1] = "summary loaded"
             => \E req \in BagToSet(summaryReqs) :
                   /\ Consumed(summaryReqs, summaryReqs', req)
                   /\ store'.summary.data = SummaryResult(req.path).summaries]_vars

\* The filters were changed while the summary of the dataset is shown.
C19_Witness ==
    /\ last[1] = "updateFilters"
    /\ store.preview.filters # <<>>
    /\ store.preview.isLoading = TRUE
    /\ store.summary.data = SummaryResult(store.selectedPath).summaries
    /\ store.summary.isLoading = FALSE
    /\ summaryReqs = EmptyBag

\* C20: refreshChart called with no dataset selected, or with no value
\* column chosen, issues no request and leaves the store, the chart session
\* included, as it is.
C20_RefreshChartNoOp ==
    [][(/\ last'[1] = "refreshChart"
        /\ (store.selectedPath = NoPath \/ store.chart.options.value_columns = <<>>))
       => (store' = store /\ UNCHANGED reqVars)]_vars

\* refreshChart was called for the loaded dataset after its value columns
\* were emptied.
C20_Witness ==
    /\ last[1] = "refreshChart"
    /\ store.selectedPath # NoPath
    /\ store.chart.options.value_columns = <<>>
    /\ store.chart.data # <<>>
    /\ store.chart.isLoading = FALSE
    /\ chartReqs = EmptyBag

----------------------------------------------------------------------------
(* The chart session, checked under SpecSessions *)

\* A line or bar chart without a time column.
TimeSeriesWithoutTime(options) ==
    /\ options.chart_type \in {"line", "bar"}
    /\ options.time_column = NullColumn

\* C21: refreshChart for a line or bar chart with value columns and no time
\* column issues no request: it sets chart.error to "Time column not
\* selected." and isLoading to false and leaves the options alone; so no
\* chart request in flight is a time-series request without a time column.
C21_TimeColumnRequired ==
    /\ [](\A req \in BagToSet(chartReqs) : ~TimeSeriesWithoutTime(req.payload))
    /\ [][(/\ last'[1] = "refreshChart"
           /\ store.selectedPath # NoPath
           /\ store.chart.options.value_columns # <<>>
           /\ TimeSeriesWithoutTime(store.chart.options))
          => /\ store' = [store EXCEPT !.chart.isLoading = FALSE,
                                       !.chart.error = "Time column not selected."]
             /\ UNCHANGED reqVars]_vars

\* refreshChart was called for dataset B, which has a numeric column and no
\* timestamp column, with its schema loaded.
C21_Witness ==
    /\ last[1] = "refreshChart"
    /\ store.selectedPath = "B"
    /\ store.schema = SchemaOf("B")
    /\ store.chart.options.value_columns = <<"b">>
    /\ TimeSeriesWithoutTime(store.chart.options)
    /\ store.chart.error = "Time column not selected."
    /\ store.chart.isLoading = FALSE
    /\ chartReqs = EmptyBag

\* C22: setChartOptions(partial) replaces the option fields partial holds
\* and no other, keeps chart.data, and runs refreshChart once on the merged
\* options: at most one chart request is issued and it holds those options.
C22_SetChartOptionsMerges ==
    [][last'[1] = "setChartOptions" =>
         LET partial == last'[2]
             merged == [store EXCEPT !.chart.options =
                           [k \in DOMAIN store.chart.options |->
                               IF k \in DOMAIN partial THEN partial[k]
                               ELSE store.chart.options[k]]]
         IN /\ store'.chart.options = merged.chart.options
            /\ store'.chart.data = store.chart.data
            /\ store' = refreshChart(merged).st
            /\ chartReqs' = chartReqs (+) refreshChart(merged).ch
            /\ BagCardinality(chartReqs') <= BagCardinality(chartReqs) + 1
            /\ \A req \in BagToSet(chartReqs') :
                  Consumed(chartReqs', chartReqs, req) => req.payload = ChartPayload(merged)
            /\ UNCHANGED <<schemaReqs, previewReqs, summaryReqs>>]_vars

\* The chart type of the loaded dataset was switched to scatter: the other
\* options and the data are those loaded before, and one request is in flight.
C22_Witness ==
    /\ last[1] = "setChartOptions"
    /\ store.chart.options = [ReadyStore.chart.options EXCEPT !.chart_type = "scatter"]
    /\ store.chart.data = ReadyStore.chart.data
    /\ store.chart.data # <<>>
    /\ BagCardinality(chartReqs) = 1

----------------------------------------------------------------------------
(* Default chart options: the schema request of a selection is answered   *)
(* with any schema of up to three columns.                                 *)

DTypes == {"TIMESTAMP", "DOUBLE", "bigint", "VARCHAR"}

ColumnSlots == <<"c1", "c2", "c3">>

Schemas ==
    UNION {[1..n -> DTypes] : n \in 0..Len(ColumnSlots)}

\* The schema whose i-th column is named ColumnSlots[i] and has dtype dtypes[i].
SchemaWith(dtypes) == [i \in 1..Len(dtypes) |-> [name |-> ColumnSlots[i], dtype |-> dtypes[i]]]

SchemaResolvesWith(req, schema) ==
    /\ BagIn(req, schemaReqs)
    /\ Resume(selectFileSchemaLoaded(store, schema),
              Without(schemaReqs, req), previewReqs, summaryReqs, chartReqs,
              "schema loaded", req.path)

NextDefaults ==
    \/ calls < MaxSessionCalls /\ \E path \in Paths : SelectFile(path)
    \/ \E req \in BagToSet(schemaReqs) : \E dtypes \in Schemas :
          SchemaResolvesWith(req, SchemaWith(dtypes))

SpecDefaults == Init /\ [][NextDefaults]_vars

\* The positions of the schema's timestamp columns, and of its numeric ones.
TimestampPositions(schema) == {i \in 1..Len(schema) : IsTimestampDtype(schema[i].dtype)}

NumericPositions(schema) == {i \in 1..Len(schema) : IsNumericDtype(schema[i].dtype)}

\* C23: once a non-empty schema has loaded, time_column is the name of the
\* first timestamp column of the schema, or null if it has none, and
\* value_columns holds the first numeric column and nothing else, or is
\* empty if the schema has none.
C23_DefaultChartOptions ==
    [][(last'[1] = "schema loaded" /\ store'.schema # <<>>) =>
         LET schema == store'.schema
             ts == TimestampPositions(schema)
             vs == NumericPositions(schema)
             options == store'.chart.options
         IN /\ IF ts = {} THEN options.time_column = NullColumn
               ELSE \E i \in ts : /\ \A j \in ts : i <= j
                                  /\ options.time_column = schema[i].name
            /\ IF vs = {} THEN options.value_columns = <<>>
               ELSE \E i \in vs : /\ \A j \in vs : i <= j
                                  /\ options.value_columns = <<schema[i].name>>]_vars

\* The schema that loaded starts with a text column: the timestamp column is
\* its second and the numeric column its third.
C23_Witness ==
    /\ last[1] = "schema loaded"
    /\ store.schema = SchemaWith(<<"VARCHAR", "TIMESTAMP", "bigint">>)
    /\ store.chart.options.time_column = "c2"
    /\ store.chart.options.value_columns = <<"c3">>

\* C24: an option the user has just set with setChartOptions for the current
\* selection, while its schema request was in flight, has the same value
\* after the schema response is applied.
C24_DefaultsKeepExplicitChoice ==
    [][(/\ last[1] = "setChartOptions"
        /\ last'[1] = "schema loaded"
        /\ last'[2] = store.selectedPath)
       => \A k \in DOMAIN last[2] : store'.chart.options[k] = last[2][k]]_vars

----------------------------------------------------------------------------
(* The chart panel: its handlers read chart.options and the schema of the *)
(* store and call setChartOptions.                                          *)

ChartTypes == {"line", "bar", "scatter"}

\* schema.filter(...): the timestamp columns and the numeric columns, as names.
timeColumns(schema) ==
    ColumnNames(SelectSeq(schema, LAMBDA c : IsTimestampDtype(c.dtype)))

numericColumns(schema) ==
    ColumnNames(SelectSeq(schema, LAMBDA c : IsNumericDtype(c.dtype)))

Contains(seq, x) == \E i \in 1..Len(seq) : seq[i] = x

\* Array.from(new Set(seq)): the first occurrence of every element, in order.
RECURSIVE Distinct(_)
Distinct(seq) ==
    IF seq = <<>> THEN <<>>
    ELSE LET front == Distinct(SubSeq(seq, 1, Len(seq) - 1))
         IN IF Contains(front, seq[Len(seq)]) THEN front
            ELSE Append(front, seq[Len(seq)])

\* seq.slice(0, n)
Slice(seq, n) == SubSeq(seq, 1, IF Len(seq) < n THEN Len(seq) ELSE n)

\* seq.slice(-n)
SliceLast(seq, n) == SubSeq(seq, IF Len(seq) > n THEN Len(seq) - n + 1 ELSE 1, Len(seq))

\* Variant: the numeric schema columns come first, the selected ones after.
scatterValueColumns_SchemaFirst(schema, value_columns) ==
    Slice(Distinct(numericColumns(schema)
                   \o SelectSeq(value_columns,
                                LAMBDA col : Contains(numericColumns(schema), col))), 2)

\* The value columns of a scatter chart: the selected columns that are
\* numeric, then every numeric column, without repetition, cut to two.
scatterValueColumns(schema, value_columns) ==
    Slice(Distinct(SelectSeq(value_columns,
                             LAMBDA col : Contains(numericColumns(schema), col))
                   \o numericColumns(schema)), 2)

\* The options handleChartTypeChange passes to setChartOptions.
chartTypeOptions(st, nextType) ==
    LET options == st.chart.options
        times == timeColumns(st.schema)
        numerics == numericColumns(st.schema)
    IN IF nextType = "scatter"
       THEN [chart_type |-> nextType,
             time_column |-> NullColumn,
             value_columns |-> scatterValueColumns(st.schema, options.value_columns)]
       ELSE [chart_type |-> nextType,
             time_column |-> IF Len(times) > 0
                             THEN (IF options.time_column # NullColumn
                                   THEN options.time_column ELSE times[1])
                             ELSE NullColumn,
             value_columns |-> IF options.value_columns # <<>>
                               THEN <<options.value_columns[1]>>
                               ELSE IF numerics # <<>> THEN <<numerics[1]>> ELSE <<>>]

handleChartTypeChange(st, nextType) ==
    IF nextType = st.chart.options.chart_type THEN NoEffect(st)
    ELSE setChartOptions(st, chartTypeOptions(st, nextType))

handleToggleValueColumn(st, columnName) ==
    IF st.chart.options.chart_type = "scatter" THEN NoEffect(st)
    ELSE IF Contains(st.chart.options.value_columns, columnName)
    THEN setChartOptions(st, [value_columns |->
                                 FilterOut(st.chart.options.value_columns, columnName)])
    ELSE setChartOptions(st, [value_columns |->
                                 SliceLast(Append(st.chart.options.value_columns, columnName), 3)])

\* value_columns[i], undefined beyond the end of the list.
NoColumn == "<undefined>"

ColumnAt(seq, i) == IF i <= Len(seq) THEN seq[i] ELSE NoColumn

\* The controls are disabled while the chart is loading.
PanelEnabled == store.chart.isLoading = FALSE

ChangeChartType(nextType) ==
    /\ PanelEnabled
    /\ nextType # store.chart.options.chart_type
    /\ Call(handleChartTypeChange(store, nextType), "handleChartTypeChange", nextType)

ToggleValueColumn(columnName) ==
    /\ PanelEnabled
    /\ store.chart.options.chart_type # "scatter"
    /\ Contains(numericColumns(store.schema), columnName)
    /\ Call(handleToggleValueColumn(store, columnName), "handleToggleValueColumn", columnName)

SelectTimeColumn(columnName) ==
    /\ PanelEnabled
    /\ store.chart.options.chart_type # "scatter"
    /\ Contains(timeColumns(store.schema), columnName)
    /\ Call(setChartOptions(store, [time_column |-> columnName]), "selectTimeColumn", columnName)

SelectXColumn(columnName) ==
    /\ PanelEnabled
    /\ store.chart.options.chart_type = "scatter"
    /\ Contains(numericColumns(store.schema), columnName)
    /\ Call(setChartOptions(store, [value_columns |->
                <<columnName, ColumnAt(store.chart.options.value_columns, 2)>>]),
            "selectXColumn", columnName)

PanelColumns == {"ts", "a", "b", "label"}

NextChartPanel ==
    \/ \E path \in Paths : SelectFile(path)
    \/ \E nextType \in ChartTypes : ChangeChartType(nextType)
    \/ \E columnName \in PanelColumns : ToggleValueColumn(columnName)
    \/ \E columnName \in PanelColumns : SelectTimeColumn(columnName)
    \/ \E columnName \in PanelColumns : SelectXColumn(columnName)
    \/ Response

SpecChartPanel == InitPreview /\ [][NextChartPanel]_vars

\* C25: with a schema loaded, a scatter chart has exactly 2 value columns,
\* both numeric, and a line or bar chart has 1 to 3 value columns and a
\* time column.
C25_OptionsConsistentWithType ==
    store.schema # <<>> =>
        LET options == store.chart.options
        IN /\ options.chart_type = "scatter" =>
                 /\ Len(options.value_columns) = 2
                 /\ \A i \in 1..Len(options.value_columns) :
                       Contains(numericColumns(store.schema), options.value_columns[i])
           /\ options.chart_type \in {"line", "bar"} =>
                 /\ Len(options.value_columns) \in 1..3
                 /\ options.time_column # NullColumn

\* C27: switching from scatter to line or bar leaves one value column, a
\* numeric one: the first column selected before, or else the first numeric
\* column of the schema (none only if there is neither); the time column
\* becomes the first timestamp column of the schema, or null without one.
C27_SwitchFromScatter ==
    [][(/\ last'[1] = "handleChartTypeChange"
        /\ store.chart.options.chart_type = "scatter")
       => LET before == store.chart.options.value_columns
              numerics == numericColumns(store.schema)
              times == timeColumns(store.schema)
              options == store'.chart.options
          IN /\ options.chart_type = last'[2]
             /\ options.value_columns =
                   IF before # <<>> THEN <<before[1]>>
                   ELSE IF numerics # <<>> THEN <<numerics[1]>> ELSE <<>>
             /\ \A i \in 1..Len(options.value_columns) :
                   Contains(numerics, options.value_columns[i])
             /\ options.time_column = IF times # <<>> THEN times[1] ELSE NullColumn]_vars

----------------------------------------------------------------------------
(* The chart-type switch on its own: a dataset with any schema of one to  *)
(* three columns is loaded and any list of up to three column names has   *)
(* been set as its value columns.                                          *)

\* The store once the chart request e issued, if any, has been answered.
ChartSettled(e) ==
    IF e.ch = EmptyBag THEN e.st
    ELSE LET ch == CHOOSE r \in BagToSet(e.ch) : TRUE
         IN chartLoaded(e.st, ch, ChartResult(ch.payload)).st

\* The store after selectFile("A") answered with `schema`, its preview,
\* summary and chart loaded, and then setChartOptions(options), its chart
\* loaded as well.
LoadedWith(schema, options) ==
    LET s1 == selectFile(initialStore, "A").st
        e2 == selectFileSchemaLoaded(s1, schema)
        pv == CHOOSE r \in BagToSet(e2.pv) : TRUE
        s3 == previewLoaded(e2.st, pv, PreviewResult(pv.payload)).st
        s4 == summaryLoaded(s3, SummaryResult("A")).st
        s5 == ChartSettled(Effect(s4, e2.sc, e2.pv, e2.sm, e2.ch))
    IN ChartSettled(setChartOptions(s5, options))

ValueColumnLists == UNION {[1..n -> SeqRange(ColumnSlots)] : n \in 0..Len(ColumnSlots)}

InitChartType ==
    /\ \E dtypes \in Schemas \ {<<>>} : \E columns \in ValueColumnLists :
          store = LoadedWith(SchemaWith(dtypes), [value_columns |-> columns])
    /\ schemaReqs = EmptyBag
    /\ previewReqs = EmptyBag
    /\ summaryReqs = EmptyBag
    /\ chartReqs = EmptyBag
    /\ filesReqs = EmptyBag
    /\ rejected = FALSE
    /\ search = initialSearchState
    /\ locateReqs = EmptyBag
    /\ calls = 0
    /\ last = <<"create", 0>>
    /\ latestPreview = <<PreviewPayload(store)>>
    /\ latestChart = IF store.chart.data = <<>> THEN NoRequest
                     ELSE <<ChartPayload(store)>>

NextChartType ==
    \/ calls < MaxSessionCalls /\ \E nextType \in ChartTypes : ChangeChartType(nextType)
    \/ \E req \in BagToSet(chartReqs) : ChartResolves(req)

SpecChartType == InitChartType /\ [][NextChartType]_vars

\* C26: switching to scatter sets time_column to null and value_columns to
\* the first two distinct names of the selected columns that are numeric
\* followed by the numeric columns of the schema: at most 2 entries, all
\* numeric, none twice; [c1,c2,c3] with c1 and c2 numeric gives [c1,c2].
C26_SwitchToScatter ==
    [][(last'[1] = "handleChartTypeChange" /\ last'[2] = "scatter") =>
         LET numerics == numericColumns(store.schema)
             selected == store.chart.options.value_columns
             candidates == SelectSeq(selected, LAMBDA col : Contains(numerics, col))
                              \o numerics
             others == SelectSeq(candidates, LAMBDA col : col # candidates[1])
             new == store'.chart.options.value_columns
         IN /\ store'.chart.options.chart_type = "scatter"
            /\ store'.chart.options.time_column = NullColumn
            /\ Len(new) <= 2
            /\ Cardinality(SeqRange(new)) = Len(new)
            /\ SeqRange(new) \subseteq SeqRange(numerics)
            /\ new = IF candidates = <<>> THEN <<>>
                     ELSE IF others = <<>> THEN <<candidates[1]>>
                     ELSE <<candidates[1], others[1]>>
            /\ (selected = <<"c1", "c2", "c3">> /\ numerics = <<"c1", "c2">>)
                  => new = <<"c1", "c2">>]_vars

\* Three numeric columns with c3 selected: the scatter chart takes c3, the
\* selected one, and then c1, the first of the schema.
C26_Witness ==
    /\ last = <<"handleChartTypeChange", "scatter">>
    /\ numericColumns(store.schema) = <<"c1", "c2", "c3">>
    /\ store.chart.options.value_columns = <<"c3", "c1">>
    /\ store.chart.options.time_column = NullColumn

----------------------------------------------------------------------------
(* Locating a row: the page calls the store's locatePreviewValue, which   *)
(* asks the gateway for the first matching row of the dataset and moves   *)
(* the preview to the page that holds it.                                  *)

LocatePageSizes == {50, DefaultPageSize}

Queries == {[column |-> "a", value |-> "7", matchMode |-> "contains"]}

\* Zero-based indexes the gateway may report for the first matching row.
GlobalRows == {0, 49, 50, 127, 199, 200, 449}

NoMatchMessage == "no matching row"

\* The request: the query and the active filters, without the sort.
LocatePayload(st, query) ==
    [path |-> st.selectedPath, column |-> query.column, value |-> query.value,
     match_mode |-> query.matchMode, filters |-> st.preview.filters]

\* The page that holds row globalRowIndex, and the row's index within it.
locateTargetPage(st, globalRowIndex) == (globalRowIndex \div st.preview.pageSize) + 1

locateRowIndexInPage(st, globalRowIndex) == globalRowIndex % st.preview.pageSize

\* The store after a successful locate: the page is set, and the preview
\* refreshed, if the target page is not the current one.
locateFound(st, globalRowIndex) ==
    IF locateTargetPage(st, globalRowIndex) # st.preview.page
    THEN setPage(st, locateTargetPage(st, globalRowIndex))
    ELSE NoEffect(st)

\* Variant: a failed locate empties the rows of the preview.
locateFailed_ClearsRows(st, message) ==
    NoEffect([st EXCEPT !.preview.rows = <<>>, !.preview.error = message])

\* The store after a failed locate.
locateFailed(st, message) == NoEffect(st)

highlightOf(st, sr, req, globalRowIndex) ==
    [page |-> locateTargetPage(st, globalRowIndex),
     rowIndexInPage |-> locateRowIndexInPage(st, globalRowIndex),
     column |-> req.payload.column,
     value |-> req.payload.value,
     token |-> sr.token + 1]

\* Variant: the row within the page, counted from zero.
withinPage_ZeroBased(globalRowIndex, pageSize) == globalRowIndex % pageSize

\* The row within the page as the controls display it, counted from one.
withinPage(globalRowIndex, pageSize) == (globalRowIndex % pageSize) + 1

LocateStep(e, sr, reqs, op, arg) ==
    /\ search' = sr
    /\ locateReqs' = reqs
    /\ UNCHANGED <<filesReqs, rejected>>
    /\ Step(e, schemaReqs, previewReqs, summaryReqs, chartReqs, op, arg)

LocateCall(query) ==
    /\ store.selectedPath # NoPath
    /\ calls < MaxSessionCalls
    /\ calls' = calls + 1
    /\ LocateStep(NoEffect(store), search,
                  locateReqs (+) SetToBag({[payload |-> LocatePayload(store, query)]}),
                  "locate", 0)

LocateResolves(req, globalRowIndex) ==
    /\ BagIn(req, locateReqs)
    /\ globalRowIndex < TotalRowsOf(req.payload.path, req.payload.filters)
    /\ UNCHANGED calls
    /\ LocateStep(locateFound(store, globalRowIndex),
                  [searchError |-> NoError,
                   highlight |-> highlightOf(store, search, req, globalRowIndex),
                   token |-> search.token + 1],
                  Without(locateReqs, req), "locate found", globalRowIndex)

LocateFails(req, message) ==
    /\ BagIn(req, locateReqs)
    /\ UNCHANGED calls
    /\ LocateStep(locateFailed(store, message), [search EXCEPT !.searchError = message],
                  Without(locateReqs, req), "locate failed", message)

\* The store with dataset A loaded once the page size has been changed and
\* the preview reloaded.
WithPageSize(st, pageSize) ==
    LET e == setPageSize(st, pageSize)
        pv == CHOOSE r \in BagToSet(e.pv) : TRUE
    IN previewLoaded(e.st, pv, PreviewResult(pv.payload)).st

InitLocate ==
    /\ \E pageSize \in LocatePageSizes : store = WithPageSize(ReadyStore, pageSize)
    /\ schemaReqs = EmptyBag
    /\ previewReqs = EmptyBag
    /\ summaryReqs = EmptyBag
    /\ chartReqs = EmptyBag
    /\ filesReqs = EmptyBag
    /\ rejected = FALSE
    /\ search = initialSearchState
    /\ locateReqs = EmptyBag
    /\ calls = 0
    /\ last = <<"create", 0>>
    /\ latestPreview = <<PreviewPayload(store)>>
    /\ latestChart = IF store.chart.data = <<>> THEN NoRequest
                     ELSE <<ChartPayload(store)>>

NextLocate ==
    \/ \E query \in Queries : LocateCall(query)
    \/ \E req \in BagToSet(locateReqs) : \E globalRowIndex \in GlobalRows :
          LocateResolves(req, globalRowIndex)
    \/ \E req \in BagToSet(locateReqs) : \E message \in ErrMsgs \cup {NoMatchMessage} :
          LocateFails(req, message)
    \/ calls < MaxSessionCalls /\ \E filters \in Filters : UpdateFilters(filters)
    \/ PreviewResponse

SpecLocate == InitLocate /\ [][NextLocate]_vars

\* C28: a locate that found global row g under page size s highlights row
\* g mod s of page floor(g / s) + 1 (row 27 of page 3 for g = 127, s = 50),
\* which the controls display as row (g mod s) + 1; the page of the preview
\* is set, and a preview request issued, only if that page is not the
\* current one.
C28_LocateTarget ==
    [][last'[1] = "locate found" =>
         LET g == last'[2]
             s == store.preview.pageSize
             p == search'.highlight.page
             r == search'.highlight.rowIndexInPage
         IN /\ r \in 0..(s - 1)
            /\ (p - 1) * s + r = g
            /\ withinPage(g, s) = r + 1
            /\ (g = 127 /\ s = 50) => (p = 3 /\ r = 27)
            /\ IF p = store.preview.page
               THEN store' = store /\ UNCHANGED reqVars
               ELSE /\ store'.preview.page = p
                    /\ \E req \in BagToSet(previewReqs') :
                          /\ Consumed(previewReqs', previewReqs, req)
                          /\ req.payload.offset = (p - 1) * s]_vars

\* Row 127 was located with 50 rows to the page.
C28_Witness ==
    /\ last = <<"locate found", 127>>
    /\ store.preview.pageSize = 50
    /\ store.preview.page = 3
    /\ search.highlight.page = 3
    /\ search.highlight.rowIndexInPage = 27
    /\ previewReqs # EmptyBag

\* C29: a locate that failed, with no match or with a gateway error, sets
\* the search error and nothing of the preview: page, rows, totalRows, sort,
\* filters and error are as before and no preview request is issued.
C29_LocateFailureScoped ==
    [][last'[1] = "locate failed" =>
         /\ search'.searchError = last'[2]
         /\ store'.preview = store.preview
         /\ store' = store
         /\ UNCHANGED reqVars]_vars

\* No row matched while the first page of the dataset is shown.
C29_Witness ==
    /\ last = <<"locate failed", NoMatchMessage>>
    /\ search.searchError = NoMatchMessage
    /\ store.preview.rows # <<>>
    /\ store.preview.error = NoError
    /\ previewReqs = EmptyBag

----------------------------------------------------------------------------
(* The response interceptor of the HTTP client: what a failed gateway call *)
(* rejects with.  A JavaScript value is a record of its kind and of the    *)
(* text String(value) gives.                                               *)

Undefined == [kind |-> "undefined", text |-> "undefined"]

Null == [kind |-> "null", text |-> "null"]

Str(text) == [kind |-> "string", text |-> text]

Num(text) == [kind |-> "number", text |-> text]

\* String(value)
String(value) == value.text

\* a ?? b
Coalesce(a, b) == IF a.kind \in {"undefined", "null"} THEN b ELSE a

PayloadValues == {Undefined, Null, Str("not found"), Str(""), Num("404")}

TransportMessages == {"Request failed with status code 500", "timeout of 30000ms exceeded"}

\* The errors the transport hands to the interceptor: with a response
\* (whose data may hold detail and message), with a request and no
\* response, or with neither.
TransportErrors ==
    {[response |-> TRUE, request |-> TRUE, detail |-> d, message |-> m, transport |-> t] :
        d \in PayloadValues, m \in {Undefined, Str("bad request")}, t \in TransportMessages}
    \cup
    {[response |-> FALSE, request |-> r, detail |-> Undefined, message |-> Undefined,
      transport |-> t] : r \in BOOLEAN, t \in TransportMessages}

\* The fixed Korean sentence of the interceptor, in translation.
NoResponseMessage == "No response from the server. Check the network."

\* Variant: the message field is preferred to the detail field.
rejectionMessage_MessageFirst(error) ==
    IF error.response
    THEN String(Coalesce(Coalesce(error.message, error.detail), Str(error.transport)))
    ELSE IF error.request THEN NoResponseMessage
    ELSE error.transport

\* The message of the Error the interceptor rejects with.
rejectionMessage(error) ==
    IF error.response
    THEN String(Coalesce(Coalesce(error.detail, error.message), Str(error.transport)))
    ELSE IF error.request THEN NoResponseMessage
    ELSE error.transport

\* The listing request fails with a transport error; init stores the message
\* of the Error the interceptor made of it.
FilesRejectsWith(error) ==
    /\ BagIn(FilesRequest, filesReqs)
    /\ filesReqs' = Without(filesReqs, FilesRequest)
    /\ UNCHANGED <<calls, rejected, search, locateReqs>>
    /\ Step(initFilesFailed(store, rejectionMessage(error)),
            schemaReqs, previewReqs, summaryReqs, chartReqs, "gateway failed", error)

NextGateway ==
    \/ InitCall
    \/ \E error \in TransportErrors : FilesRejectsWith(error)

SpecGateway == Init /\ [][NextGateway]_vars

\* C30: the message a gateway failure is reported with is, when a response
\* was received, the text of the payload's detail, or else of its message,
\* or else the transport's message; when a request was sent and no response
\* arrived it is the fixed no-response message, which is none of these.
C30_NormalizedError ==
    last[1] = "gateway failed" =>
        LET error == last[2]
            present(v) == v.kind \notin {"undefined", "null"}
        IN /\ (error.response /\ present(error.detail))
                 => store.filesError = error.detail.text
           /\ (error.response /\ ~present(error.detail) /\ present(error.message))
                 => store.filesError = error.message.text
           /\ (error.response /\ ~present(error.detail) /\ ~present(error.message))
                 => store.filesError = error.transport
           /\ (~error.response /\ error.request)
                 => /\ store.filesError = NoResponseMessage
                    /\ store.filesError \notin TransportMessages
                    /\ \A v \in PayloadValues : store.filesError # v.text

\* The payload of the response held no detail and a message.
C30_Witness ==
    /\ last[1] = "gateway failed"
    /\ last[2].response
    /\ last[2].detail = Undefined
    /\ last[2].message = Str("bad request")
    /\ store.filesError = "bad request"

----------------------------------------------------------------------------
(* Overlapping chart requests: the chart options of the loaded dataset are *)
(* changed while earlier chart requests are still in flight.               *)

\* Partial chart options that keep the chart ready to be fetched.
RacePartials ==
    {[chart_type |-> "scatter"], [time_bucket |-> "1 hour"], [interpolation |-> "linear"]}

ChartResponse ==
    \/ \E req \in BagToSet(chartReqs) : ChartResolves(req)
    \/ \E req \in BagToSet(chartReqs), message \in ErrMsgs : ChartRejects(req, message)

NextChartRace ==
    \/ calls < MaxSessionCalls /\ \E options \in RacePartials : SetChartOptions(options)
    \/ calls < MaxSessionCalls /\ RefreshChart
    \/ ChartResponse

SpecChartRace == InitPreview /\ [][NextChartRace]_vars

\* C31: once every chart request of the selected dataset has been answered
\* and the chart shows no error, chart.data and chart.columns are the result
\* of the request issued last and chart.options are the options that request
\* was built from; the late response of an earlier request overwrites none
\* of them.
C31_LaterChartRequestWins ==
    (/\ chartReqs = EmptyBag
     /\ latestChart # NoRequest
     /\ store.chart.error = NoError) =>
        LET payload == latestChart[1]
        IN /\ store.chart.data = ChartResult(payload).rows
           /\ store.chart.columns = ChartResult(payload).columns
           /\ ChartPayload(store) = payload

----------------------------------------------------------------------------
(* The isLoading flags, checked under SpecSessions *)

\* C32: while a preview request is in flight preview.isLoading is true, and
\* likewise for the summary and the chart: isLoading becomes false only with
\* the response of the last outstanding request of the session.
C32_LoadingWhileInFlight ==
    /\ previewReqs # EmptyBag => store.preview.isLoading = TRUE
    /\ summaryReqs # EmptyBag => store.summary.isLoading = TRUE
    /\ chartReqs # EmptyBag => store.chart.isLoading = TRUE

----------------------------------------------------------------------------
(* A selection run to its end: the schema request is answered with any    *)
(* schema of up to two columns or fails, and every request issued then is *)
(* answered.                                                               *)

SettleSchemas == {dtypes \in Schemas : Len(dtypes) < Len(ColumnSlots)}

SummaryResponse ==
    \/ \E req \in BagToSet(summaryReqs) : SummaryResolves(req)
    \/ \E req \in BagToSet(summaryReqs), message \in ErrMsgs : SummaryRejects(req, message)

\* The gateway answers a call that is in flight.
SettleResponse ==
    \/ \E req \in BagToSet(schemaReqs) : \E dtypes \in SettleSchemas :
          SchemaResolvesWith(req, SchemaWith(dtypes))
    \/ \E req \in BagToSet(schemaReqs), message \in ErrMsgs : SchemaRejects(req, message)
    \/ PreviewResponse
    \/ SummaryResponse
    \/ ChartResponse

NextSettle ==
    \/ calls < MaxSessionCalls /\ \E path \in Paths : SelectFile(path)
    \/ SettleResponse

\* A schema request in flight leaves the bag: its response or its failure.
SchemaAnswered ==
    \E req \in BagToSet(schemaReqs) : schemaReqs' = Without(schemaReqs, req)

\* Every gateway call in flight is eventually answered, by its response or,
\* at the latest when the client's timeout expires, by its failure.
SpecSettle ==
    /\ Init /\ [][NextSettle]_vars
    /\ WF_schemaReqs(SchemaAnswered)
    /\ WF_vars(PreviewResponse)
    /\ WF_vars(SummaryResponse)
    /\ WF_vars(ChartResponse)

AllSettled ==
    /\ store.preview.isLoading = FALSE
    /\ store.summary.isLoading = FALSE
    /\ store.chart.isLoading = FALSE

\* C33: after selectFile on a new path, with every gateway call answered,
\* the store reaches a state where preview.isLoading, summary.isLoading and
\* chart.isLoading are all false, whatever schema the gateway returned.
C33_SelectionSettles == (last[1] = "selectFile") ~> AllSettled

\* C34: the chart state a successful chart response leaves has no error; an
\* error recorded before the refresh started is gone once the response has
\* been applied.
C34_ChartSuccessClearsError ==
    [][last'[1] = "chart loaded" => store'.chart.error = NoError]_vars

----------------------------------------------------------------------------
(* One dataset selection from its start: a dataset is selected once, its   *)
(* schema request is answered, and the pagination, sort and filter         *)
(* operations run with their preview responses in any order.               *)

SelectOnce ==
    /\ store.selectedPath = NoPath
    /\ \E path \in Paths : SelectFile(path)

SchemaResponse ==
    \/ \E req \in BagToSet(schemaReqs) : SchemaResolves(req)
    \/ \E req \in BagToSet(schemaReqs), message \in ErrMsgs : SchemaRejects(req, message)

NextSelection ==
    \/ SelectOnce
    \/ RefreshPreview
    \/ \E page \in Pages : SetPage(page)
    \/ \E pageSize \in PageSizes : SetPageSize(pageSize)
    \/ \E sort \in Sorts : UpdateSort(sort)
    \/ \E filters \in Filters : UpdateFilters(filters)
    \/ SchemaResponse
    \/ PreviewResponse

SpecSelection == Init /\ [][NextSelection]_vars

\* C35: with a dataset selected, no preview request in flight and no preview
\* error, preview.rows and preview.totalRows are the response to the request
\* built from the page, pageSize, sort and filters that preview state holds,
\* in whatever order the responses arrived.
C35_RowsMatchParameters ==
    (/\ store.selectedPath # NoPath
     /\ previewReqs = EmptyBag
     /\ store.preview.error = NoError) =>
        LET result == PreviewResult(PreviewPayload(store))
        IN /\ store.preview.rows = result.rows
           /\ store.preview.totalRows = result.total_rows

\* C35, amended: the same once the preview session is no longer loading,
\* that is once a preview response of the selection has been applied.
C35_RowsMatchParametersOnceLoaded ==
    (/\ store.selectedPath # NoPath
     /\ previewReqs = EmptyBag
     /\ store.preview.error = NoError
     /\ store.preview.isLoading = FALSE) =>
        LET result == PreviewResult(PreviewPayload(store))
        IN /\ store.preview.rows = result.rows
           /\ store.preview.totalRows = result.total_rows

\* Two requests overlapped and the one issued first was answered last: the
\* rows and the parameters are both those of the first request.
C35_Witness ==
    /\ last[1] = "preview loaded"
    /\ previewReqs = EmptyBag
    /\ store.preview.error = NoError
    /\ store.preview.isLoading = FALSE
    /\ store.preview.rows # <<>>
    /\ latestPreview # <<PreviewPayload(store)>>
    /\ store.preview.rows = PreviewResult(PreviewPayload(store)).rows

----------------------------------------------------------------------------
(* Loading and error, checked under SpecSessions *)

\* C36: in no state is a session both loading and in error: for the preview,
\* the summary and the chart, isLoading = true implies that error is absent.
C36_LoadingExcludesError ==
    /\ store.preview.isLoading = TRUE => store.preview.error = NoError
    /\ store.summary.isLoading = TRUE => store.summary.error = NoError
    /\ store.chart.isLoading = TRUE => store.chart.error = NoError

\* The preview of the loaded dataset failed and was then refreshed: it is
\* loading again, with the rows the failure emptied and no error.
C36_Witness ==
    /\ last[1] = "refreshPreview"
    /\ store.summary.data # <<>>
    /\ store.preview.totalRows = 0
    /\ store.preview.rows = <<>>
    /\ BagCardinality(previewReqs) = 1
    /\ store.preview.isLoading = TRUE
    /\ store.preview.error = NoError

----------------------------------------------------------------------------
(* Selection and its schema failure, checked under SpecRecent *)

\* C37: the step of selectFile(path) that resets the sessions also puts path
\* at the front of recentFiles, while the schema request it issued is still
\* in flight; the failure of a schema request leaves recentFiles as it is,
\* so the path stays listed.
C37_RecentBeforeSchema ==
    [][/\ last'[1] = "selectFile" =>
            /\ store'.recentFiles[1] = last'[2]
            /\ store'.selectedPath = last'[2]
            /\ store'.schema = <<>>
            /\ store'.preview = [initialPreviewState EXCEPT !.isLoading = TRUE]
            /\ BagIn([path |-> last'[2]], schemaReqs')
       /\ last'[1] = "schema failed" =>
            /\ store'.recentFiles = store.recentFiles
            /\ (store.selectedPath = last'[2] => store'.recentFiles[1] = last'[2])]_vars

\* E was selected after A, B, C and D, and its schema request has failed.
C37_Witness ==
    /\ last = <<"schema failed", "E">>
    /\ store.selectedPath = "E"
    /\ store.recentFiles = <<"E", "D", "C", "B", "A">>
    /\ store.preview.error \in ErrMsgs
    /\ schemaReqs = EmptyBag

----------------------------------------------------------------------------
(* The selection after a schema failure, checked under SpecSessions *)

\* C38: the failure of a schema request leaves selectedPath as it is, so the
\* newly selected path stays selected; it is neither cleared nor set back to
\* the dataset selected before, and the sessions hold no rows, no summary
\* data and no chart data afterwards.
C38_SchemaFailureKeepsSelection ==
    [][last'[1] = "schema failed" =>
          /\ store'.selectedPath = store.selectedPath
          /\ (store.selectedPath = last'[2] => store'.selectedPath = last'[2])
          /\ store'.selectedPath # NoPath
          /\ store'.preview.rows = <<>>
          /\ store'.summary.data = <<>>
          /\ store'.chart.data = <<>>]_vars

\* B was selected with dataset A loaded, and the schema request of B has
\* failed.
C38_Witness ==
    /\ last = <<"schema failed", "B">>
    /\ store.recentFiles = <<"B", "A">>
    /\ store.selectedPath = "B"
    /\ store.preview.rows = <<>>
    /\ store.summary.error \in ErrMsgs
    /\ schemaReqs = EmptyBag /\ previewReqs = EmptyBag
    /\ summaryReqs = EmptyBag /\ chartReqs = EmptyBag

----------------------------------------------------------------------------
(* The aggregation-style variant of the store: the chart session holds a   *)
(* row limit, dimensions and metrics, and refreshChart takes them as       *)
(* arguments.  Its refreshPreview and refreshSummary are those above.      *)

Min(a, b) == IF a < b THEN a ELSE b

Max(a, b) == IF a > b THEN a ELSE b

\* Limits a caller asks for: below, at and above both ends of the range.
LimitInputs == {0, 9, 10, 500, 1000, 1001}

\* limitOverride?: number, as a sequence: empty when not given.
NoLimit == <<>>

LimitOverrides == {NoLimit} \cup {<<limit>> : limit \in LimitInputs}

DimensionInputs == {<<>>, <<"label">>}

MetricInputs == {<<>>, <<[name |-> "total", agg |-> "sum", column |-> "b"]>>}

aggregationInitialChartState ==
    [data |-> <<>>, isLoading |-> FALSE, error |-> NoError,
     limit |-> 200, dimensions |-> <<>>, metrics |-> <<>>]

aggregationInitialStore == [initialStore EXCEPT !.chart = aggregationInitialChartState]

\* Variant: the limit is capped at 1000 and has no floor.
normalizedLimit_NoFloor(limit) == Min(limit, 1000)

\* Math.max(10, Math.min(limit, 1000))
normalizedLimit(limit) == Max(10, Min(limit, 1000))

\* fetchChart's answer: the series is named by the query.
AggregationResult(payload) == [series |-> <<payload>>]

\* refreshChart(dimensions, metrics, limitOverride) up to `await fetchChart`.
aggregationRefreshChart(st, dimensions, metrics, limitOverride) ==
    IF st.selectedPath = NoPath THEN NoEffect(st)
    ELSE LET limit == normalizedLimit(IF limitOverride # NoLimit THEN limitOverride[1]
                                      ELSE st.chart.limit)
         IN Effect([st EXCEPT !.chart = [st.chart EXCEPT !.isLoading = TRUE,
                                                         !.error = NoError,
                                                         !.limit = limit,
                                                         !.dimensions = dimensions,
                                                         !.metrics = metrics]],
                   EmptyBag, EmptyBag, EmptyBag,
                   SetToBag({[payload |-> [path |-> st.selectedPath,
                                           dimensions |-> dimensions,
                                           metrics |-> metrics,
                                           filters |-> st.preview.filters,
                                           limit |-> limit]]}))

\* refreshChart resumed with the response: the limit, dimensions and metrics
\* of the call are written again, on the chart state held now.
aggregationChartLoaded(st, req, response) ==
    NoEffect([st EXCEPT !.chart = [st.chart EXCEPT !.data = response.series,
                                                   !.isLoading = FALSE,
                                                   !.error = NoError,
                                                   !.limit = req.payload.limit,
                                                   !.dimensions = req.payload.dimensions,
                                                   !.metrics = req.payload.metrics]])

aggregationChartFailed(st, req, message) ==
    NoEffect([st EXCEPT !.chart = [st.chart EXCEPT !.isLoading = FALSE,
                                                   !.limit = req.payload.limit,
                                                   !.dimensions = req.payload.dimensions,
                                                   !.metrics = req.payload.metrics,
                                                   !.error = message]])

\* setChartLimit: the clamped limit is stored, and the chart query runs again
\* with the dimensions and metrics read before the set, if it has both.
setChartLimit(st, limit) ==
    LET s1 == [st EXCEPT !.chart.limit = normalizedLimit(limit)]
    IN IF Len(st.chart.dimensions) > 0 /\ Len(st.chart.metrics) > 0
       THEN aggregationRefreshChart(s1, st.chart.dimensions, st.chart.metrics,
                                    <<normalizedLimit(limit)>>)
       ELSE NoEffect(s1)

\* selectFile of the variant up to `await fetchSchema(path)`: the chart
\* session is reset and not marked loading.
aggregationSelectFile(st, path) ==
    IF st.selectedPath = path THEN NoEffect(st)
    ELSE Effect([st EXCEPT
                    !.selectedPath = path,
                    !.schema = <<>>,
                    !.preview = [initialPreviewState EXCEPT !.isLoading = TRUE],
                    !.summary = [initialSummaryState EXCEPT !.isLoading = TRUE],
                    !.chart = aggregationInitialChartState,
                    !.recentFiles = updateRecent(st.recentFiles, path)],
                SetToBag({[path |-> path]}), EmptyBag, EmptyBag, EmptyBag)

\* selectFile of the variant resumed with the schema: the set, then
\* refreshPreview and refreshSummary.
aggregationSchemaLoaded(st, schema) ==
    LET e1 == refreshPreview([st EXCEPT !.schema = schema])
    IN Join(e1, refreshSummary(e1.st))

\* selectFile of the variant resumed in its catch block.
aggregationSchemaFailed(st, errorMessage) ==
    NoEffect([st EXCEPT
                !.schema = <<>>,
                !.preview = [initialPreviewState EXCEPT !.isLoading = FALSE,
                                                        !.error = errorMessage]])

AggregationSelectFile(path) ==
    Call(aggregationSelectFile(store, path),
         IF store.selectedPath = path THEN "selectFile same" ELSE "selectFile", path)

AggregationRefreshChart(dimensions, metrics, limitOverride) ==
    Call(aggregationRefreshChart(store, dimensions, metrics, limitOverride),
         "refreshChart", limitOverride)

SetChartLimit(limit) == Call(setChartLimit(store, limit), "setChartLimit", limit)

AggregationSchemaResolves(req) ==
    /\ BagIn(req, schemaReqs)
    /\ Resume(aggregationSchemaLoaded(store, SchemaOf(req.path)),
              Without(schemaReqs, req), previewReqs, summaryReqs, chartReqs,
              "schema loaded", req.path)

AggregationSchemaRejects(req, message) ==
    /\ BagIn(req, schemaReqs)
    /\ Resume(aggregationSchemaFailed(store, message),
              Without(schemaReqs, req), previewReqs, summaryReqs, chartReqs,
              "schema failed", req.path)

AggregationChartResolves(req) ==
    /\ BagIn(req, chartReqs)
    /\ Resume(aggregationChartLoaded(store, req, AggregationResult(req.payload)),
              schemaReqs, previewReqs, summaryReqs, Without(chartReqs, req),
              "chart loaded", req.payload.limit)

AggregationChartRejects(req, message) ==
    /\ BagIn(req, chartReqs)
    /\ Resume(aggregationChartFailed(store, req, message),
              schemaReqs, previewReqs, summaryReqs, Without(chartReqs, req),
              "chart failed", req.payload.limit)

\* The variant's store with dataset B selected and its schema, preview and
\* summary loaded.
AggregationReadyStore ==
    LET s1 == aggregationSelectFile(aggregationInitialStore, "B").st
        e2 == aggregationSchemaLoaded(s1, SchemaOf("B"))
        pv == CHOOSE r \in BagToSet(e2.pv) : TRUE
        s3 == previewLoaded(e2.st, pv, PreviewResult(pv.payload)).st
    IN summaryLoaded(s3, SummaryResult("B")).st

InitChartLimit ==
    /\ store \in {aggregationInitialStore, AggregationReadyStore}
    /\ schemaReqs = EmptyBag
    /\ previewReqs = EmptyBag
    /\ summaryReqs = EmptyBag
    /\ chartReqs = EmptyBag
    /\ filesReqs = EmptyBag
    /\ rejected = FALSE
    /\ search = initialSearchState
    /\ locateReqs = EmptyBag
    /\ calls = 0
    /\ last = <<"create", 0>>
    /\ latestPreview = IF store.selectedPath = NoPath THEN NoRequest
                       ELSE <<PreviewPayload(store)>>
    /\ latestChart = NoRequest

NextChartLimit ==
    \/ calls < MaxSessionCalls /\ \E path \in Paths : AggregationSelectFile(path)
    \/ /\ calls < MaxSessionCalls
       /\ \E dimensions \in DimensionInputs, metrics \in MetricInputs :
             \E limitOverride \in LimitOverrides :
                AggregationRefreshChart(dimensions, metrics, limitOverride)
    \/ calls < MaxSessionCalls /\ \E limit \in LimitInputs : SetChartLimit(limit)
    \/ \E req \in BagToSet(schemaReqs) : AggregationSchemaResolves(req)
    \/ \E req \in BagToSet(schemaReqs), message \in ErrMsgs :
          AggregationSchemaRejects(req, message)
    \/ PreviewResponse
    \/ SummaryResponse
    \/ \E req \in BagToSet(chartReqs) : AggregationChartResolves(req)
    \/ \E req \in BagToSet(chartReqs), message \in ErrMsgs :
          AggregationChartRejects(req, message)

SpecChartLimit == InitChartLimit /\ [][NextChartLimit]_vars

\* The limit clamped to the range [10, 1000].
ClampedLimit(limit) == IF limit < 10 THEN 10 ELSE IF limit > 1000 THEN 1000 ELSE limit

\* The chart requests a step issued.
IssuedChartRequests == {req \in BagToSet(chartReqs') : Consumed(chartReqs', chartReqs, req)}

\* C39: in the aggregation-style variant chart.limit is within [10, 1000] in
\* every state, and so is the limit of every chart request; setChartLimit
\* stores the requested limit clamped to the range and refreshChart the
\* clamped override (the stored limit when it has none); a chart request
\* carries the limit the store holds when it is issued; and setChartLimit
\* issues a chart request only when dimensions and metrics are both
\* non-empty.
C39_ChartLimitClamped ==
    /\ [](/\ store.chart.limit \in 10..1000
          /\ \A req \in BagToSet(chartReqs) : req.payload.limit \in 10..1000)
    /\ [][/\ last'[1] = "setChartLimit" =>
               /\ store'.chart.limit = ClampedLimit(last'[2])
               /\ IssuedChartRequests # {} =>
                     /\ store.chart.dimensions # <<>>
                     /\ store.chart.metrics # <<>>
          /\ (last'[1] = "refreshChart" /\ store.selectedPath # NoPath) =>
               store'.chart.limit = ClampedLimit(IF last'[2] = NoLimit THEN store.chart.limit
                                                 ELSE last'[2][1])
          /\ last'[1] \in {"setChartLimit", "refreshChart"} =>
               \A req \in IssuedChartRequests : req.payload.limit = store'.chart.limit]_vars

\* A limit above the range was asked for while a chart query with dimensions
\* and metrics was shown: 1000 is stored and a request for 1000 rows is in
\* flight.
C39_Witness ==
    /\ last = <<"setChartLimit", 1001>>
    /\ store.chart.limit = 1000
    /\ store.chart.dimensions # <<>>
    /\ store.chart.metrics # <<>>
    /\ \E req \in BagToSet(chartReqs) : req.payload.limit = 1000

====
